---------------------------- MODULE Spec2Model ----------------------------
(***************************************************************************)
(* LinguaFlix: the subtitle synchronisation pipeline.                      *)
(*                                                                         *)
(*   SpecParser     parseTTML on bounded documents                         *)
(*   SpecTime       timeToMs on bounded attribute values and tick rates    *)
(*   SpecLocator    findCueAt on bounded cue lists and timestamps          *)
(*   SpecTracks     getSubtitleTracks' choice of the overlay track         *)
(*   SpecRoute      setupRouteDetection, cleanup and the history calls and  *)
(*                  popstate events of the navigation detector             *)
(*   SpecDiscovery  one run of getPlayerAPI(options) against a host that   *)
(*                  changes between attempts                               *)
(*   Spec           the orchestrator (content.js) with the navigation,     *)
(*                  video, playback, player-API, fetcher and display       *)
(*                  modules, one action per event-loop task: navigation,   *)
(*                  DOM mutation, timers of the video-detected callback,   *)
(*                  host changes, observed requests, settled fetches       *)
(*   SpecPlayback   Spec plus the pause / play events and the revert timer *)
(*                  of the track switch.  These three write overlayText,   *)
(*                  activeTrack and revertTimers only, and the actions of  *)
(*                  Spec read none of the three but for the track the      *)
(*                  next revert timer captures.                            *)
(*   SpecPause      one navigation cycle of Spec with its pause and play   *)
(*                  events                                                 *)
(*   SpecSwitch     the cycles of Spec and the revert timers, with a host  *)
(*                  that moves between two titles                          *)
(*   SpecArming     the cycles of Spec up to their arming, with timers     *)
(*                  that fire                                              *)
(*   SpecRevert     SpecSwitch without fairness, with a viewer who changes  *)
(*                  the caption track of the second title                  *)
(*   SpecListeners  setupPlaybackDetection, cleanup and the pause and play  *)
(*                  events of two video elements                           *)
(*   SpecCache      one navigation cycle of Spec with the bodies the CDN   *)
(*                  answers with, for the overlay languages "pl" and "en"  *)
(*   SpecSurfaces   the cycles of Spec on a page that shows one of two     *)
(*                  video elements, with their pause and play events       *)
(***************************************************************************)
EXTENDS Integers, Sequences, FiniteSets, Bags, TLC

(***************************************************************************)
(* Bounds of the model (not program constants).                            *)
(***************************************************************************)
\* paragraph nodes per caption document
MaxNodes == 2
\* video-detected callbacks suspended at one time in the orchestrator model
MaxFlows == 1
\* tracks per track list
MaxTracks == 3
\* the orchestrator model's retry budget (maxRetries, 10 in content.js)
maxRetries == 2
\* attempts per getPlayerAPI() call in the orchestrator model (maxAttempts,
\* by default 20)
coordMaxAttempts == 1

Null == "null"

(***************************************************************************)
(* JavaScript numbers as far as the parser produces them: finite integers, *)
(* NaN and the two infinities.                                             *)
(***************************************************************************)
Num(n) == [k |-> "num", v |-> n]
NaN == [k |-> "nan", v |-> 0]
PosInf == [k |-> "inf", v |-> 1]
NegInf == [k |-> "inf", v |-> -1]

IsNaN(a) == a.k = "nan"
IsFinite(a) == a.k = "num"

\* a < b as JavaScript evaluates it (false when either side is NaN)
JsLt(a, b) ==
    IF IsNaN(a) \/ IsNaN(b) THEN FALSE
    ELSE IF IsFinite(a) /\ IsFinite(b) THEN a.v < b.v
    ELSE IF IsFinite(a) THEN b.v = 1
    ELSE IF IsFinite(b) THEN a.v = -1
    ELSE a.v < b.v

\* a >= b as JavaScript evaluates it (false when either side is NaN)
JsGe(a, b) ==
    IF IsNaN(a) \/ IsNaN(b) THEN FALSE
    ELSE IF IsFinite(a) /\ IsFinite(b) THEN a.v >= b.v
    ELSE IF IsFinite(a) THEN b.v = -1
    ELSE IF IsFinite(b) THEN a.v = 1
    ELSE a.v >= b.v

JsLe(a, b) == JsGe(b, a)

\* the sign of a - b: "neg", "zero", "pos" or "nan"
JsSubSign(a, b) ==
    IF IsNaN(a) \/ IsNaN(b) THEN "nan"
    ELSE IF IsFinite(a) /\ IsFinite(b)
         THEN (IF a.v < b.v THEN "neg" ELSE IF a.v = b.v THEN "zero" ELSE "pos")
    ELSE IF IsFinite(a) THEN (IF b.v = 1 THEN "neg" ELSE "pos")
    ELSE IF IsFinite(b) THEN (IF a.v = 1 THEN "pos" ELSE "neg")
    ELSE IF a.v = b.v THEN "nan"
    ELSE IF a.v = 1 THEN "pos" ELSE "neg"

(***************************************************************************)
(* Caption documents.  An attribute is absent (also the empty string),     *)
(* "<n>t" (kind "ticks"), or some other text (kind "bad", e.g. a clock     *)
(* time "00:00:01.000" or "xt").  A node's text is what extractCueText     *)
(* returns for it.                                                         *)
(***************************************************************************)
Absent == [k |-> "absent", n |-> 0]
Bad == [k |-> "bad", n |-> 0]
Ticks(n) == [k |-> "ticks", n |-> n]

BeginAttrs == {Absent, Bad, Ticks(0), Ticks(30000000), Ticks(52500000)}
EndAttrs == {Absent, Bad, Ticks(30000000), Ticks(60000000)}
Texts == {"", "Hello", "World"}
\* every begin/end pair with a non-empty text and a tick end; one node without
\* text and one without end per text; one node with a malformed end
Nodes ==
    {n \in [begin : BeginAttrs, end : EndAttrs, text : Texts] :
        /\ (n.text = "" \/ n.end = Absent) => n.begin = Ticks(0)
        /\ n.end = Bad => (n.begin = Ticks(0) /\ n.text = "Hello")}

\* the root elements of the bounded document set: xml:lang absent, "en" or
\* "pl"; ttp:tickRate absent, a positive integer, "0", or not a number
Roots ==
    {[lang |-> Null, tickRate |-> Absent], [lang |-> "en", tickRate |-> Absent],
     [lang |-> "pl", tickRate |-> Absent], [lang |-> "pl", tickRate |-> Ticks(1000)],
     [lang |-> "pl", tickRate |-> Ticks(0)], [lang |-> "en", tickRate |-> Bad]}

NodeSeqs == UNION {[1..n -> Nodes] : n \in 0..MaxNodes}

\* kind: "nonstring" (not a string or empty), "invalid" (parsererror), "xml"
XmlDoc(root, nodes) ==
    [kind |-> "xml", lang |-> root.lang, tickRate |-> root.tickRate, nodes |-> nodes]
XmlDocs == {XmlDoc(r, ns) : r \in Roots, ns \in NodeSeqs}
NoXml(kd) == [kind |-> kd, lang |-> Null, tickRate |-> Absent, nodes |-> <<>>]
Documents == XmlDocs \cup {NoXml("nonstring"), NoXml("invalid")}


(***************************************************************************)
(* subtitle-parser.js                                                      *)
(***************************************************************************)
DefaultTickRate == 10000000

\* parseInt(tickRateAttr, 10), or the default when the attribute is absent
tickRateOf(doc) ==
    IF doc.tickRate.k = "absent" THEN Num(DefaultTickRate)
    ELSE IF doc.tickRate.k = "ticks" THEN Num(doc.tickRate.n)
    ELSE NaN

(***************************************************************************)
(* IEEE 754 doubles, as far as timeToMs needs them: the quotient of two     *)
(* integers, its product with 1000, and Math.round of that.  TLC's integers *)
(* have 32 bits, so a significand is a sequence of 53 binary digits.        *)
(***************************************************************************)
\* the binary digits of v, most significant first, in w places
BitsFixed(v, w) == [i \in 1..w |-> (v \div 2^(w - i)) % 2]

\* the number of binary digits of the natural number n < 2^31 (0 for 0)
BitLength(n) == Cardinality({k \in 0..30 : 2^k <= n})

BitsOf(n) == BitsFixed(n, BitLength(n))

\* the natural number a digit sequence stands for
RECURSIVE ValueOf(_)
ValueOf(bits) ==
    IF bits = <<>> THEN 0
    ELSE IF Len(bits) = 1 THEN bits[1]
    ELSE LET h == Len(bits) \div 2
         IN  ValueOf(SubSeq(bits, 1, h)) * 2^(Len(bits) - h)
                 + ValueOf(SubSeq(bits, h + 1, Len(bits)))

\* bits + 1, one digit longer when every digit is 1
IncBits(bits) ==
    LET zeros == {i \in 1..Len(bits) : bits[i] = 0}
    IN  IF zeros = {} THEN <<1>> \o [i \in 1..Len(bits) |-> 0]
        ELSE LET z == CHOOSE i \in zeros : \A j \in zeros : j <= i
             IN  [i \in 1..Len(bits) |-> IF i < z THEN bits[i] ELSE IF i = z THEN 1 ELSE 0]

\* a positive double: the 53 digits m of its significand (m[1] = 1) and the
\* exponent e of the last one; its value is ValueOf(m) * 2^e
Double(m, e) == [m |-> m, e |-> e]

\* round to nearest, ties to even.  bits: the leading digits of the exact
\* value, 54 or more, bits[1] = 1; e: the exponent of the last of them;
\* sticky: whether the exact value has non-zero digits after them
RoundToDouble(bits, e, sticky) ==
    LET m == SubSeq(bits, 1, 53)
        more == sticky \/ \E i \in 55..Len(bits) : bits[i] = 1
        up == bits[54] = 1 /\ (more \/ m[53] = 1)
        e53 == e + (Len(bits) - 53)
        m1 == IF up THEN IncBits(m) ELSE m
    IN  IF Len(m1) = 54 THEN Double(SubSeq(m1, 1, 53), e53 + 1) ELSE Double(m1, e53)

\* long division, six digits a step: the first 6 * k digits of rem / r after
\* the point (0 <= rem < r < 2^24), and the remainder left
RECURSIVE fracBits(_, _, _)
fracBits(rem, r, k) ==
    IF k = 0 THEN [bits |-> <<>>, rem |-> rem]
    ELSE LET rest == fracBits((rem * 64) % r, r, k - 1)
         IN  [bits |-> BitsFixed((rem * 64) \div r, 6) \o rest.bits, rem |-> rest.rem]

\* the double n / r for integers 0 < n < 2^31, 0 < r < 2^24: n / r is at
\* least 2^-24, so 78 digits after the point hold 54 significant ones
DivDouble(n, r) ==
    LET frac == fracBits(n % r, r, 13)
        digits == BitsOf(n \div r) \o frac.bits
        first == CHOOSE i \in 1..Len(digits) :
                     digits[i] = 1 /\ \A j \in 1..(i - 1) : digits[j] = 0
    IN  RoundToDouble(SubSeq(digits, first, Len(digits)), -78, frac.rem # 0)

\* the double x * k for a positive double x and an integer 0 < k < 2^12, by
\* limbs of 18 digits
MulDouble(x, k) ==
    LET lo == ValueOf(SubSeq(x.m, 36, 53)) * k
        mid == ValueOf(SubSeq(x.m, 18, 35)) * k + lo \div 2^18
        hi == ValueOf(SubSeq(x.m, 1, 17)) * k + mid \div 2^18
        product == BitsOf(hi) \o BitsFixed(mid % 2^18, 18) \o BitsFixed(lo % 2^18, 18)
    IN  IF Len(product) = 53 THEN Double(product, x.e)
        ELSE RoundToDouble(product, x.e, FALSE)

\* Math.round of the double x (below 2^31), or of -x when negative: the
\* integer digits, plus one when the fraction is at least 1/2; Math.round
\* takes -n.5 towards +Infinity, so for -x the fraction must exceed 1/2
RoundDouble(x, negative) ==
    LET nInt == 53 + x.e
        int == IF nInt <= 0 THEN 0 ELSE ValueOf(SubSeq(x.m, 1, nInt))
        half == nInt >= 0 /\ nInt < 53 /\ x.m[nInt + 1] = 1
        more == \E i \in 1..53 : i > nInt + 1 /\ x.m[i] = 1
    IN  IF negative THEN 0 - (int + (IF half /\ more THEN 1 ELSE 0))
        ELSE int + (IF half THEN 1 ELSE 0)

Abs(n) == IF n < 0 THEN 0 - n ELSE n

\* Math.round((ticks / rate) * 1000) for integers ticks and rate # 0.  When
\* rate divides ticks the quotient and the product are integers below 2^53,
\* which doubles hold exactly
RoundMs(ticks, rate) ==
    IF ticks % Abs(rate) = 0 THEN (ticks \div rate) * 1000
    ELSE RoundDouble(MulDouble(DivDouble(Abs(ticks), Abs(rate)), 1000),
                     (ticks < 0) # (rate < 0))

\* tickRate is the result of parseInt or the default: a finite integer or NaN
timeToMs(timeStr, tickRate) ==
    IF timeStr.k # "ticks" THEN Num(0)
    ELSE IF IsNaN(tickRate) THEN NaN
    ELSE IF tickRate.v = 0
         THEN (IF timeStr.n = 0 THEN NaN
               ELSE IF timeStr.n > 0 THEN PosInf ELSE NegInf)
    ELSE Num(RoundMs(timeStr.n, tickRate.v))

Cue(text, start, end) == [text |-> text, start |-> start, end |-> end]
NoCue == Cue(Null, NaN, NaN)

\* the loop over the <p> elements: the cues in document order
RECURSIVE collectCues(_, _)
collectCues(nodes, tickRate) ==
    IF nodes = <<>> THEN <<>>
    ELSE LET p == Head(nodes)
             rest == collectCues(Tail(nodes), tickRate)
         IN  IF p.begin.k = "absent" \/ p.end.k = "absent" THEN rest
             ELSE IF p.text = "" THEN rest
             ELSE <<Cue(p.text, timeToMs(p.begin, tickRate), timeToMs(p.end, tickRate))>>
                  \o rest

\* the comparator (a, b) => a.start - b.start; Array.prototype.sort reads a
\* NaN result as +0
compareStart(a, b) ==
    LET sg == JsSubSign(a.start, b.start)
    IN  IF sg = "nan" THEN "zero" ELSE sg

\* ECMAScript: the sort order is specified only for a consistent comparator
consistentComparator(cues) ==
    \A i, j, k \in 1..Len(cues) :
        /\ (compareStart(cues[i], cues[j]) = "zero" /\ compareStart(cues[j], cues[k]) = "zero")
              => compareStart(cues[i], cues[k]) = "zero"
        /\ (compareStart(cues[i], cues[j]) = "neg" /\ compareStart(cues[j], cues[k]) = "neg")
              => compareStart(cues[i], cues[k]) = "neg"
        /\ (compareStart(cues[i], cues[j]) = "pos" /\ compareStart(cues[j], cues[k]) = "pos")
              => compareStart(cues[i], cues[k]) = "pos"

\* insertion from the right: c passes every element that compares greater
RECURSIVE insertCue(_, _)
insertCue(sorted, c) ==
    IF sorted = <<>> THEN <<c>>
    ELSE LET last == sorted[Len(sorted)]
         IN  IF compareStart(last, c) = "pos"
             THEN insertCue(SubSeq(sorted, 1, Len(sorted) - 1), c) \o <<last>>
             ELSE sorted \o <<c>>

RECURSIVE stableSort(_)
stableSort(cues) ==
    IF cues = <<>> THEN <<>>
    ELSE insertCue(stableSort(SubSeq(cues, 1, Len(cues) - 1)), cues[Len(cues)])

Reorderings(s) ==
    {[i \in 1..Len(s) |-> s[f[i]]] :
        f \in {g \in [1..Len(s) -> 1..Len(s)] : \A i, j \in 1..Len(s) : g[i] = g[j] => i = j}}

\* result.cues.sort(...): the stable sort, or any order the engine may leave
\* when the comparator is inconsistent
sortOutcomes(cues) ==
    IF consistentComparator(cues) THEN {stableSort(cues)} ELSE Reorderings(cues)

ParseResult(cues, language) == [cues |-> cues, language |-> language]

languageOf(doc) ==
    IF doc.lang = Null THEN Null
    ELSE IF doc.lang = "en" THEN "en-US" ELSE doc.lang

\* the set of results parseTTML may return for doc
parseTTML(doc) ==
    IF doc.kind # "xml" THEN {ParseResult(<<>>, Null)}
    ELSE IF doc.nodes = <<>> THEN {ParseResult(<<>>, languageOf(doc))}
    ELSE {ParseResult(cs, languageOf(doc)) :
              cs \in sortOutcomes(collectCues(doc.nodes, tickRateOf(doc)))}

\* a value passed as the cues argument: an array, or anything else
JsArray(items) == [isArray |-> TRUE, items |-> items]
NotArray == [isArray |-> FALSE, items |-> <<>>]

\* a variant whose intervals include their end
RECURSIVE scanCuesInclusiveEnd(_, _)
scanCuesInclusiveEnd(timeMs, cues) ==
    IF cues = <<>> THEN NoCue
    ELSE LET c == Head(cues)
         IN  IF JsGe(timeMs, c.start) /\ JsLe(timeMs, c.end) THEN c
             ELSE IF JsLt(timeMs, c.start) THEN NoCue
             ELSE scanCuesInclusiveEnd(timeMs, Tail(cues))

\* a variant that tests the end of the interval only
RECURSIVE scanCuesIgnoringStart(_, _)
scanCuesIgnoringStart(timeMs, cues) ==
    IF cues = <<>> THEN NoCue
    ELSE LET c == Head(cues)
         IN  IF JsLt(timeMs, c.end) THEN c
             ELSE scanCuesIgnoringStart(timeMs, Tail(cues))

\* the for loop of findCueAt over the cues not yet examined
RECURSIVE scanCues(_, _)
scanCues(timeMs, cues) ==
    IF cues = <<>> THEN NoCue
    ELSE LET c == Head(cues)
         IN  IF JsGe(timeMs, c.start) /\ JsLt(timeMs, c.end) THEN c
             ELSE IF JsLt(timeMs, c.start) THEN NoCue
             ELSE scanCues(timeMs, Tail(cues))

findCueAt(timeMs, cues) ==
    IF ~cues.isArray \/ Len(cues.items) = 0 THEN NoCue
    ELSE scanCues(timeMs, cues.items)

(***************************************************************************)
(* The external session host (window.netflix.appContext.state.playerApp).  *)
(* A snapshot says whether the application handle is present, whether      *)
(* reading it throws, what getAllPlayerSessionIds() enumerates and for     *)
(* which identifiers getVideoPlayerBySessionId returns an object.          *)
(***************************************************************************)
SessionIds == {"browse-0", "watch-1", "watch-2"}

\* the session object the host resolves an identifier to
ObjOf(id) ==
    IF id = "watch-1" THEN "sessA" ELSE IF id = "watch-2" THEN "sessB" ELSE "sessN"

Sessions == {ObjOf(id) : id \in SessionIds}

\* playerSession.getMovieId()
MovieOf(session) ==
    IF session = "sessA" THEN "m1" ELSE IF session = "sessB" THEN "m2" ELSE "m0"

HostSnap(app, throws, ids, live) ==
    [app |-> app, throws |-> throws, ids |-> ids, live |-> live]

HostAbsent == HostSnap(FALSE, FALSE, <<>>, {})
HostNonWatch == HostSnap(TRUE, FALSE, <<"browse-0">>, {"browse-0"})
HostWatchA == HostSnap(TRUE, FALSE, <<"watch-1">>, {"watch-1"})
HostWatchB == HostSnap(TRUE, FALSE, <<"watch-2">>, {"watch-2"})

\* the snapshots the orchestrator model moves between
CoordHostStates == {HostAbsent, HostNonWatch, HostWatchA}

\* the snapshots one discovery run is checked against
HostStates ==
    CoordHostStates \cup
    {HostWatchB,
     HostSnap(TRUE, TRUE, <<"watch-1">>, {"watch-1"}),
     HostSnap(TRUE, FALSE, <<>>, {}),
     HostSnap(TRUE, FALSE, <<"watch-1">>, {}),
     HostSnap(TRUE, FALSE, <<"browse-0", "watch-1">>, {"browse-0", "watch-1"}),
     HostSnap(TRUE, FALSE, <<"watch-1", "watch-2">>, {"watch-2"})}

(***************************************************************************)
(* player-api-connector.js: getPlayerAPI                                   *)
(***************************************************************************)
Api(playerSession, sessionId) == [playerSession |-> playerSession, sessionId |-> sessionId]
NullApi == Api(Null, Null)

\* backoffFactor is the rational num / den
Options(maxAttempts, delayMs, num, den, maxDelayMs) ==
    [maxAttempts |-> maxAttempts, delayMs |-> delayMs,
     num |-> num, den |-> den, maxDelayMs |-> maxDelayMs]

DefaultOptions == Options(20, 250, 3, 2, 2000)

OptionSets ==
    {Options(n, d, f[1], f[2], m) :
        n \in {1, 2, 3, 20}, d \in {250, 3000}, f \in {<<3, 2>>, <<2, 1>>}, m \in {2000, 400}}

\* sessionIds.length ? sessionIds[0] : null
firstSessionId(h) == IF Len(h.ids) > 0 THEN h.ids[1] ELSE Null

\* a variant that takes the last enumerated identifier instead of the first
tryAttemptLastId(h) ==
    IF h.throws THEN NullApi
    ELSE IF ~h.app THEN NullApi
    ELSE LET sessionId == IF Len(h.ids) > 0 THEN h.ids[Len(h.ids)] ELSE Null
             playerSession == IF sessionId # Null /\ sessionId \in h.live
                              THEN ObjOf(sessionId) ELSE Null
         IN  IF playerSession # Null THEN Api(playerSession, sessionId) ELSE NullApi

\* one pass through the try block: the handle returned, or NullApi when the
\* attempt falls through to the sleep
tryAttempt(h) ==
    IF h.throws THEN NullApi
    ELSE IF ~h.app THEN NullApi
    ELSE LET sessionId == firstSessionId(h)
             playerSession == IF sessionId # Null /\ sessionId \in h.live
                              THEN ObjOf(sessionId) ELSE Null
         IN  IF playerSession # Null THEN Api(playerSession, sessionId) ELSE NullApi

\* delay = Math.min(Math.floor(delay * backoffFactor), maxDelayMs)
Min(a, b) == IF a < b THEN a ELSE b
\* a variant that rounds the grown delay up instead of down
nextDelayCeil(delay, opts) ==
    Min((delay * opts.num + opts.den - 1) \div opts.den, opts.maxDelayMs)
nextDelay(delay, opts) == Min((delay * opts.num) \div opts.den, opts.maxDelayMs)

(***************************************************************************)
(* The page: locations, video elements, caption tracks, caption URLs.      *)
(***************************************************************************)
Locations == {"/browse", "/watch/1", "/watch/2"}
\* newUrl.includes('/watch/')
IsWatchUrl(url) == url \in {"/watch/1", "/watch/2"}
\* api.sessionId.includes('watch')
IsWatchSessionId(id) == id \in {"watch-1", "watch-2"}

Videos == {"v1"}

Track(bcp47, rawTrackType, isNoneTrack) ==
    [bcp47 |-> bcp47, rawTrackType |-> rawTrackType, isNoneTrack |-> isNoneTrack]
NullTrack == Track(Null, Null, FALSE)
OffTrack == Track("pl", "SUBTITLES", TRUE)
EnSub == Track("en-US", "SUBTITLES", FALSE)
PlSub == Track("pl", "SUBTITLES", FALSE)
PlCC == Track("pl", "CLOSEDCAPTIONS", FALSE)

\* playerSession.getTimedTextTrackList()
TrackList(session) ==
    IF session = "sessA" THEN <<OffTrack, EnSub, PlCC, PlSub>>
    ELSE IF session = "sessB" THEN <<OffTrack, EnSub>>
    ELSE <<>>

\* the characters of the language tags and language codes of the model
Spelling(tag) ==
    CASE tag = "pl" -> <<"p", "l">>
      [] tag = "en" -> <<"e", "n">>
      [] tag = "en-US" -> <<"e", "n", "-", "U", "S">>
      [] tag = "fi" -> <<"f", "i">>
      [] tag = "fi-FI" -> <<"f", "i", "-", "F", "I">>
      [] tag = "fil" -> <<"f", "i", "l">>

\* track?.bcp47?.startsWith(overlayLanguage)
StartsWith(bcp47, lang) ==
    /\ bcp47 # Null
    /\ LET tag == Spelling(bcp47)
           prefix == Spelling(lang)
       IN  Len(tag) >= Len(prefix) /\ SubSeq(tag, 1, Len(prefix)) = prefix

\* the settings the orchestrator model is loaded with: the defaults
SettingsSet == {[overlayLanguage |-> "pl", preferClosedCaptions |-> FALSE]}

Urls == {"oca.nflxvideo.net/?o=pl", "assets.nflxext.com/img"}
\* url.includes('oca.nflxvideo.net') && url.includes('/?o=')
isSubtitleRequest(url) == url \in {"oca.nflxvideo.net/?o=pl", "oca.nflxvideo.net/?o=en"}

TwoCues == <<[begin |-> Ticks(0), end |-> Ticks(30000000), text |-> "Hello"],
             [begin |-> Ticks(30000000), end |-> Ticks(60000000), text |-> "World"]>>
\* the document the CDN serves at url
DocAt(url) ==
    IF url = "oca.nflxvideo.net/?o=pl"
    THEN XmlDoc([lang |-> "pl", tickRate |-> Absent], TwoCues)
    ELSE XmlDoc([lang |-> "en", tickRate |-> Absent], TwoCues)

\* video.currentTime * 1000 at a pause
PauseTimes == {0, 2999, 3000, 6000}

(***************************************************************************)
(* The modules' private state as one record m, and their functions as      *)
(* operators from m to m: synchronous calls compose.                       *)
(*   cachedPlayerSession, cachedSessionId     player-api-connector.js      *)
(*   performanceObserver, processedUrls, subtitleCache, playerSessionRef,  *)
(*   revertTimers (the pending setTimeout of the track switch), inflight   *)
(*   (the fetches issued and not yet settled)            subtitle-fetcher  *)
(*   trackedVideo, onPauseCallback, listeners            playback-detector *)
(*   videoObserver, onVideoDetectedCallback              video-detector    *)
(*   overlayText                                         subtitle-display  *)
(*   activeTrack     each session's active caption track (host state)      *)
(* History, read by no code: armedByStale (the network observer was armed  *)
(* by a callback of an earlier navigation cycle), the stale field of the   *)
(* pause closure (likewise), the fresh field of a pending fetch (its       *)
(* request was observed since the fetcher was last armed or cleaned up),   *)
(* the stale field of a cache entry (stored by a fetch that was not        *)
(* fresh), lastEvent (what the last step did: "nav" a navigation was       *)
(* processed, "arm" / "rearm" the fetcher was armed while disarmed /       *)
(* while armed, "disarm" an armed fetcher with a non-empty cache was       *)
(* cleaned up, "untrack" the listeners were taken off a tracked video,     *)
(* "run" getPlayerAPI was called, "none" it returned null, "runAfterNone"  *)
(* it was called after it had returned null to the same callback,          *)
(* "exhausted" the retry loop ended on its counter, "pause" / "play" a     *)
(* pause / play event was handled, "hid" the play event found a text on    *)
(* the overlay, "switch" triggerOverlaySubtitleFetch switched the track,   *)
(* "revert" its timer switched the track back, "uncaught" an exception     *)
(* left a timer callback uncaught, "detected" the video-detected callback  *)
(* was called).                                                            *)
(***************************************************************************)
\* the pause closure: the video and api.playerSession it captured
Closure(video, session, stale) == [video |-> video, session |-> session, stale |-> stale]
NoCallback == Closure(Null, Null, FALSE)

\* PlaybackDetector.cleanup()
playbackCleanup(m) ==
    [m EXCEPT !.listeners = IF m.trackedVideo # Null THEN @ \ {m.trackedVideo} ELSE @,
              !.trackedVideo = Null,
              !.onPauseCallback = NoCallback,
              !.lastEvent = IF m.trackedVideo # Null THEN @ \cup {"untrack"} ELSE @]

\* a variant that leaves the previous video's listeners in place
setupPlaybackDetectionKeepingPrevious(m, video, onPause) ==
    IF video = Null THEN m
    ELSE IF m.trackedVideo = video THEN m
    ELSE [m EXCEPT !.trackedVideo = video,
                   !.onPauseCallback = onPause,
                   !.listeners = @ \cup {video}]

\* PlaybackDetector.setupPlaybackDetection(video, onPause, onPlay)
setupPlaybackDetection(m, video, onPause) ==
    IF video = Null THEN m
    ELSE IF m.trackedVideo = video THEN m
    ELSE LET m1 == IF m.trackedVideo # Null THEN playbackCleanup(m) ELSE m
         IN  [m1 EXCEPT !.trackedVideo = video,
                        !.onPauseCallback = onPause,
                        !.listeners = @ \cup {video}]

\* VideoDetector.cleanup()
videoCleanup(m) ==
    [m EXCEPT !.videoObserver = FALSE, !.onVideoDetectedCallback = FALSE]

\* VideoDetector.detectVideo(callback)
detectVideo(m) ==
    [m EXCEPT !.onVideoDetectedCallback = TRUE, !.videoObserver = TRUE]

\* SubtitleDisplay.showSubtitle(text) / hideSubtitle() / cleanup()
showSubtitle(m, text) == [m EXCEPT !.overlayText = text]
hideSubtitle(m) == [m EXCEPT !.overlayText = ""]
displayCleanup(m) == hideSubtitle(m)

\* the pending fetches, none of them fresh any more
Outdated(pending) == {[r EXCEPT !.fresh = FALSE] : r \in pending}

\* the pending revert timers, none of them started since the last cleanup
Disowned(timers) == {[t EXCEPT !.live = FALSE] : t \in timers}

\* a variant that leaves the cue cache as it is
fetcherCleanupKeepingCache(m) ==
    [m EXCEPT !.performanceObserver = FALSE,
              !.processedUrls = {},
              !.playerSessionRef = Null,
              !.armedByStale = FALSE,
              !.inflight = Outdated(@),
              !.revertTimers = Disowned(@),
              !.lastEvent = IF m.performanceObserver /\ m.subtitleCache # <<>>
                            THEN @ \cup {"disarm"} ELSE @]

\* a variant in two phases: a connected observer is disconnected, and the
\* state is cleared by the next call
fetcherCleanupInTwoCalls(m) ==
    IF m.performanceObserver
    THEN [m EXCEPT !.performanceObserver = FALSE,
                   !.armedByStale = FALSE,
                   !.inflight = Outdated(@),
                   !.revertTimers = Disowned(@),
                   !.lastEvent = IF m.subtitleCache # <<>> THEN @ \cup {"disarm"} ELSE @]
    ELSE [m EXCEPT !.processedUrls = {},
                   !.subtitleCache = <<>>,
                   !.playerSessionRef = Null]

\* SubtitleFetcher.cleanup()
fetcherCleanup(m) ==
    [m EXCEPT !.performanceObserver = FALSE,
              !.processedUrls = {},
              !.subtitleCache = <<>>,
              !.playerSessionRef = Null,
              !.armedByStale = FALSE,
              !.inflight = Outdated(@),
              !.revertTimers = Disowned(@),
              !.lastEvent = IF m.performanceObserver /\ m.subtitleCache # <<>>
                            THEN @ \cup {"disarm"} ELSE @]

\* SubtitleFetcher.setupSubtitleFetching(playerSession), called by a callback
\* of the current navigation cycle (stale = FALSE) or of an earlier one
setupSubtitleFetching(m, playerSession, stale) ==
    IF playerSession = Null THEN m
    ELSE [m EXCEPT !.playerSessionRef = playerSession,
                   !.performanceObserver = TRUE,
                   !.processedUrls = {},
                   !.armedByStale = stale,
                   !.inflight = Outdated(@),
                   !.lastEvent = @ \cup {IF m.performanceObserver THEN "rearm" ELSE "arm"}]

\* PlayerAPIConnector.cleanup()
connectorCleanup(m) ==
    [m EXCEPT !.cachedPlayerSession = Null, !.cachedSessionId = Null]

\* matchingTracks.find(t => t.rawTrackType === type) || ... || matchingTracks[0]
firstOfType(tracks, type) ==
    LET hits == {i \in 1..Len(tracks) : tracks[i].rawTrackType = type}
    IN  IF hits = {} THEN NullTrack
        ELSE tracks[CHOOSE i \in hits : \A j \in hits : i <= j]

\* getSubtitleTracks, from the filter of trackList to result.overlay
selectOverlay(trackList, overlayLanguage, preferClosedCaptions) ==
    LET matchingTracks == SelectSeq(trackList,
            LAMBDA t : StartsWith(t.bcp47, overlayLanguage) /\ ~t.isNoneTrack)
        first == IF preferClosedCaptions THEN "CLOSEDCAPTIONS" ELSE "SUBTITLES"
        second == IF preferClosedCaptions THEN "SUBTITLES" ELSE "CLOSEDCAPTIONS"
    IN  IF matchingTracks = <<>> THEN NullTrack
        ELSE IF firstOfType(matchingTracks, first) # NullTrack
             THEN firstOfType(matchingTracks, first)
        ELSE IF firstOfType(matchingTracks, second) # NullTrack
             THEN firstOfType(matchingTracks, second)
        ELSE matchingTracks[1]

\* PlayerAPIConnector.getSubtitleTracks(overlayLanguage, preferClosedCaptions):
\* the fields overlay and current of its result
getSubtitleTracks(m, overlayLanguage, preferClosedCaptions) ==
    IF m.cachedPlayerSession = Null THEN [overlay |-> NullTrack, current |-> NullTrack]
    ELSE [overlay |-> selectOverlay(TrackList(m.cachedPlayerSession), overlayLanguage,
                                    preferClosedCaptions),
          current |-> m.activeTrack[m.cachedPlayerSession]]

\* SubtitleFetcher.triggerOverlaySubtitleFetch(overlayTrack, currentTrack): the
\* switch, and the timer that will revert to currentTrack.  History: the
\* session whose track was switched, and live (the fetcher was not cleaned up
\* since).
triggerOverlaySubtitleFetch(m, overlayTrack, currentTrack) ==
    IF m.playerSessionRef = Null THEN m
    ELSE IF overlayTrack = NullTrack THEN m
    ELSE [m EXCEPT !.activeTrack[m.playerSessionRef] = overlayTrack,
                   !.revertTimers = @ \cup {[currentTrack |-> currentTrack,
                                              session |-> m.playerSessionRef,
                                              live |-> TRUE]},
                   !.lastEvent = @ \cup {"switch"}]

\* content.js cleanup()
cleanup(m) ==
    connectorCleanup(fetcherCleanup(displayCleanup(videoCleanup(playbackCleanup(m)))))

\* the three cleanups of the stale-session branch of armVideoFlow
rejectCleanup(m) == playbackCleanup(fetcherCleanup(displayCleanup(m)))

(***************************************************************************)
(* navigation-detector: the module's state as one record d.  pushState is  *)
(* the number of wrappers the module has put around the browser's          *)
(* history.pushState (and history.replaceState, which it treats alike),    *)
(* originalPushState the saved function (<<>> for null, <<n>> for the one  *)
(* that had n wrappers),                                                   *)
(* popstateListeners the number of its listeners on window.  A callback is *)
(* known by its name.                                                      *)
(***************************************************************************)
\* the module as evaluated on the page url
DetectorAtLoad(url) ==
    [routeDetectorAttached |-> FALSE, lastUrlTracked |-> url,
     onRouteChangeCallback |-> Null, originalPushState |-> <<>>, pushState |-> 0,
     popstateHandler |-> FALSE, popstateListeners |-> 0]

\* a variant without the attach-once guard
setupRouteDetectionAgain(d, onRouteChange) ==
    [d EXCEPT !.routeDetectorAttached = TRUE,
              !.onRouteChangeCallback = onRouteChange,
              !.originalPushState = <<d.pushState>>,
              !.pushState = @ + 1,
              !.popstateHandler = TRUE,
              !.popstateListeners = @ + 1]

\* setupRouteDetection(onRouteChange)
setupRouteDetection(d, onRouteChange) ==
    IF d.routeDetectorAttached THEN d
    ELSE [d EXCEPT !.routeDetectorAttached = TRUE,
                   !.onRouteChangeCallback = onRouteChange,
                   !.originalPushState = <<d.pushState>>,
                   !.pushState = @ + 1,
                   !.popstateHandler = TRUE,
                   !.popstateListeners = @ + 1]

\* NavigationDetector.cleanup()
routeCleanup(d) ==
    [d EXCEPT !.pushState = IF d.originalPushState # <<>> THEN d.originalPushState[1] ELSE @,
              !.popstateListeners = IF d.popstateHandler THEN @ - 1 ELSE @,
              !.popstateHandler = FALSE,
              !.routeDetectorAttached = FALSE,
              !.onRouteChangeCallback = Null]

\* one task of the page: the detector's state d, the callbacks fired so far
\* and whether an exception is on its way out
Task(d) == [d |-> d, fired |-> <<>>, uncaught |-> FALSE]
Fired(callback, url, threw) == [callback |-> callback, url |-> url, threw |-> threw]

\* a variant that fires on every call, whether the URL changed or not
handleRouteChangeOnEveryCall(r, newUrl, callbackThrows) ==
    LET r1 == [r EXCEPT !.d.lastUrlTracked = newUrl]
    IN  IF r.d.onRouteChangeCallback # Null
        THEN [r1 EXCEPT !.fired = Append(@, Fired(r.d.onRouteChangeCallback, newUrl,
                                                  callbackThrows))]
        ELSE r1

\* handleRouteChange with window.location.href = newUrl and a callback that
\* throws or returns: what it throws is caught and logged
handleRouteChange(r, newUrl, callbackThrows) ==
    IF newUrl = r.d.lastUrlTracked THEN r
    ELSE LET r1 == [r EXCEPT !.d.lastUrlTracked = newUrl]
         IN  IF r.d.onRouteChangeCallback # Null
             THEN [r1 EXCEPT !.fired = Append(@, Fired(r.d.onRouteChangeCallback, newUrl,
                                                       callbackThrows))]
             ELSE r1

\* history.pushState / replaceState under `depth` wrappers: a wrapper calls
\* the function it wrapped, then handleRouteChange, then returns the result
RECURSIVE callWrapped(_, _, _, _)
callWrapped(r, depth, newUrl, callbackThrows) ==
    IF depth = 0 THEN r
    ELSE LET r1 == callWrapped(r, depth - 1, newUrl, callbackThrows)
         IN  IF r1.uncaught THEN r1 ELSE handleRouteChange(r1, newUrl, callbackThrows)

\* a popstate event with n listeners: each calls handleRouteChange
RECURSIVE dispatchPopstate(_, _, _, _)
dispatchPopstate(r, n, newUrl, callbackThrows) ==
    IF n = 0 THEN r
    ELSE handleRouteChange(dispatchPopstate(r, n - 1, newUrl, callbackThrows), newUrl,
                           callbackThrows)

\* what a step of SpecRoute did: the kind of call or event, its argument (a
\* callback or a URL), the URL the detector had tracked before it, the
\* callbacks it fired, whether the call returned its result, and the last
\* callback fired before it
Call(kind, arg, tracked, fired, returned, previous) ==
    [kind |-> kind, arg |-> arg, tracked |-> tracked, fired |-> fired,
     returned |-> returned, previous |-> previous]
NoFired == Fired(Null, Null, FALSE)
NoCall == Call("none", Null, Null, <<>>, TRUE, NoFired)

(***************************************************************************)
(* State.                                                                  *)
(***************************************************************************)
VARIABLES
    \* SpecParser: the document handed to parseTTML, and what it returned
    pDoc, pPc, pResult,
    \* SpecTime: one call timeToMs(cTimeStr, tickRate) under a root element
    \* whose ttp:tickRate attribute is cTickRate, and the value it returned
    cTimeStr, cTickRate, cMs, cPc,
    \* SpecLocator: the arguments of findCueAt(lTime, lCues), the value the
    \* last call returned, the calls made
    lTime, lCues, lResult, lCalls,
    \* SpecTracks: one selection of the overlay track among sTrackList for
    \* (sLanguage, sPreferCC), and the track selected
    sTrackList, sLanguage, sPreferCC, sOverlay, sPc,
    \* SpecRoute: window.location.href, the navigation detector's module state
    \* (and the functions and listeners it has installed), what the last call
    \* or event did
    nLocation, nDetector, nLog,
    \* the host, and the player-API connector's module state
    host, cachedPlayerSession, cachedSessionId,
    \* SpecDiscovery: one getPlayerAPI(dOpts) call: where it is suspended, its
    \* locals attempt and delay, the value it returned
    dOpts, dPc, dAttempt, dDelay, dResult,
    \* SpecDiscovery, history: host reads made, delays slept, the snapshot the
    \* last attempt read, whether the host ever held a resolvable first session
    dReads, dSleeps, dSnap, dHostWasValid,
    \* the page: window.location.href, document.querySelector('video'), the
    \* video's currentTime in milliseconds, each session's active caption track
    location, domVideo, currentTime, activeTrack,
    \* content.js: the loaded settings, the suspended video-detected callbacks
    \* (a bag of flows)
    userSettings, flows,
    \* navigation-detector
    routeDetectorAttached, lastUrlTracked,
    \* video-detector
    videoObserver, onVideoDetectedCallback,
    \* playback-detector; listeners: the videos carrying its pause/play handlers
    trackedVideo, onPauseCallback, listeners,
    \* subtitle-fetcher
    performanceObserver, processedUrls, subtitleCache, playerSessionRef,
    revertTimers, inflight,
    \* subtitle-display: the overlay's text ("" when hidden or absent)
    overlayText,
    \* history
    armedByStale, lastEvent

timeVars == <<cTimeStr, cTickRate, cMs, cPc>>
locatorVars == <<lTime, lCues, lResult, lCalls>>
trackVars == <<sTrackList, sLanguage, sPreferCC, sOverlay, sPc>>
routeVars == <<nLocation, nDetector, nLog>>
parserVars == <<pDoc, pPc, pResult, timeVars, locatorVars, trackVars, routeVars>>
connectorVars == <<cachedPlayerSession, cachedSessionId>>
discoveryVars == <<dOpts, dPc, dAttempt, dDelay, dResult, dReads, dSleeps, dSnap, dHostWasValid>>
pageVars == <<location, domVideo, currentTime>>
navVars == <<routeDetectorAttached, lastUrlTracked>>
moduleVars ==
    <<activeTrack, videoObserver, onVideoDetectedCallback, trackedVideo, onPauseCallback,
      listeners, performanceObserver, processedUrls, subtitleCache, playerSessionRef,
      revertTimers, inflight, overlayText, armedByStale, lastEvent>>
coordVars == <<pageVars, navVars, moduleVars, userSettings, flows>>
vars == <<parserVars, host, connectorVars, discoveryVars, coordVars>>
\* what the orchestrator's actions leave alone
otherVars == <<parserVars, discoveryVars>>

\* the record m a handler starts from, and the state after it left m
Cur ==
    [cachedPlayerSession |-> cachedPlayerSession, cachedSessionId |-> cachedSessionId,
     performanceObserver |-> performanceObserver, armedByStale |-> armedByStale,
     processedUrls |-> processedUrls, subtitleCache |-> subtitleCache,
     playerSessionRef |-> playerSessionRef, revertTimers |-> revertTimers,
     inflight |-> inflight,
     trackedVideo |-> trackedVideo, onPauseCallback |-> onPauseCallback,
     listeners |-> listeners, videoObserver |-> videoObserver,
     onVideoDetectedCallback |-> onVideoDetectedCallback,
     overlayText |-> overlayText, activeTrack |-> activeTrack,
     lastEvent |-> {}]

Commit(m) ==
    /\ cachedPlayerSession' = m.cachedPlayerSession
    /\ cachedSessionId' = m.cachedSessionId
    /\ performanceObserver' = m.performanceObserver
    /\ armedByStale' = m.armedByStale
    /\ processedUrls' = m.processedUrls
    /\ subtitleCache' = m.subtitleCache
    /\ playerSessionRef' = m.playerSessionRef
    /\ revertTimers' = m.revertTimers
    /\ inflight' = m.inflight
    /\ trackedVideo' = m.trackedVideo
    /\ onPauseCallback' = m.onPauseCallback
    /\ listeners' = m.listeners
    /\ videoObserver' = m.videoObserver
    /\ onVideoDetectedCallback' = m.onVideoDetectedCallback
    /\ overlayText' = m.overlayText
    /\ activeTrack' = m.activeTrack
    /\ lastEvent' = m.lastEvent

(***************************************************************************)
(* SpecParser: parseTTML applied to every document of the bounded set.     *)
(***************************************************************************)
ParseIdle ==
    /\ pDoc = NoXml("nonstring")
    /\ pPc = "idle"
    /\ pResult = ParseResult(<<>>, Null)

TimeIdle ==
    /\ cTimeStr = Absent /\ cTickRate = Absent
    /\ cMs = Num(0)
    /\ cPc = "idle"

LocatorIdle ==
    /\ lTime = 0 /\ lCues = NotArray
    /\ lResult = NoCue
    /\ lCalls = 0

TrackIdle ==
    /\ sTrackList = <<>> /\ sLanguage = "pl" /\ sPreferCC = FALSE
    /\ sOverlay = NullTrack
    /\ sPc = "idle"

RouteIdle ==
    /\ nLocation = "/browse"
    /\ nDetector = DetectorAtLoad("/browse")
    /\ nLog = NoCall

ParserIdle == ParseIdle /\ TimeIdle /\ LocatorIdle /\ TrackIdle /\ RouteIdle

ParserInit ==
    /\ pDoc \in Documents
    /\ pPc = "ready"
    /\ pResult = ParseResult(<<>>, Null)
    /\ TimeIdle /\ LocatorIdle /\ TrackIdle /\ RouteIdle

Parse ==
    /\ pPc = "ready"
    /\ pResult' \in parseTTML(pDoc)
    /\ pPc' = "parsed"
    /\ UNCHANGED <<pDoc, timeVars, locatorVars, trackVars, routeVars, host, connectorVars,
                   discoveryVars, coordVars>>

ParserNext == Parse

(***************************************************************************)
(* SpecTime: timeToMs applied to a begin/end attribute under a root        *)
(* element with or without ttp:tickRate.                                   *)
(***************************************************************************)
TickValues ==
    {0, 1, 4999, 5000, 5001, 15000, 25000, 5005000, 5015000, 5025000,
     30000000, 52500000, 60000000, 513429584}
TimeStrs == {Absent, Bad} \cup {Ticks(n) : n \in TickValues}
TickRateAttrs == {Absent, Bad, Ticks(0), Ticks(1000), Ticks(10000), Ticks(90000)}

TimeInit ==
    /\ cTimeStr \in TimeStrs /\ cTickRate \in TickRateAttrs
    /\ cMs = Num(0)
    /\ cPc = "ready"

\* const tickRate = ...; timeToMs(begin, tickRate)
Convert ==
    /\ cPc = "ready"
    /\ cMs' = timeToMs(cTimeStr, tickRateOf([tickRate |-> cTickRate]))
    /\ cPc' = "done"
    /\ UNCHANGED <<cTimeStr, cTickRate, pDoc, pPc, pResult, locatorVars, trackVars, routeVars, host,
                   connectorVars, discoveryVars, coordVars>>

TimeNext == Convert

(***************************************************************************)
(* SpecLocator: findCueAt called, once and again, on a timestamp and a cue *)
(* list (sorted or not, overlapping or not) or a value that is no array.   *)
(***************************************************************************)
LocatorCues ==
    {Cue(t, Num(b), Num(e)) : t \in {"Hello", "World"}, b \in {0, 3000},
                              e \in {3000, 4000, 6000}}
LocatorLists == UNION {[1..n -> LocatorCues] : n \in 0..MaxNodes}
LocatorTimes == {0, 2999, 3000, 3999, 5000, 6000}

LocatorInit ==
    /\ lTime \in LocatorTimes
    /\ lCues \in {JsArray(l) : l \in LocatorLists} \cup {NotArray}
    /\ lResult = NoCue
    /\ lCalls = 0

\* a variant that takes the cues it has examined off the list
LocateConsuming ==
    /\ lCalls < 2
    /\ lResult' = findCueAt(Num(lTime), lCues)
    /\ lCues' = IF lCues.isArray /\ lCues.items # <<>>
                THEN JsArray(Tail(lCues.items)) ELSE lCues
    /\ lCalls' = lCalls + 1
    /\ UNCHANGED <<lTime, pDoc, pPc, pResult, timeVars, trackVars, routeVars, host, connectorVars,
                   discoveryVars, coordVars>>

\* one call findCueAt(lTime, lCues)
Locate ==
    /\ lCalls < 2
    /\ lResult' = findCueAt(Num(lTime), lCues)
    /\ lCalls' = lCalls + 1
    /\ UNCHANGED <<lTime, lCues, pDoc, pPc, pResult, timeVars, trackVars, routeVars, host,
                   connectorVars, discoveryVars, coordVars>>

LocatorNext == Locate

(***************************************************************************)
(* SpecTracks: the overlay track getSubtitleTracks selects from a track    *)
(* list, for a requested language and closed-caption preference.           *)
(***************************************************************************)
\* the tracks of the lists: Finnish, Filipino and English tracks of the two
\* caption types and of a type that is neither, and the "Off" entry
TrackPool ==
    {Track(tag, type, FALSE) : tag \in {"fi-FI", "fil", "en-US"},
                               type \in {"SUBTITLES", "CLOSEDCAPTIONS", "ASSISTIVE"}}
    \cup {Track("fi", "SUBTITLES", TRUE)}
TrackLists == UNION {[1..n -> TrackPool] : n \in 0..MaxTracks}
RequestedLanguages == {"fi", "en"}

TrackInit ==
    /\ sTrackList \in TrackLists
    /\ sLanguage \in RequestedLanguages /\ sPreferCC \in BOOLEAN
    /\ sOverlay = NullTrack
    /\ sPc = "ready"

\* getSubtitleTracks(sLanguage, sPreferCC) on a session whose track list is
\* sTrackList
SelectTrack ==
    /\ sPc = "ready"
    /\ sOverlay' = selectOverlay(sTrackList, sLanguage, sPreferCC)
    /\ sPc' = "done"
    /\ UNCHANGED <<sTrackList, sLanguage, sPreferCC, pDoc, pPc, pResult, timeVars,
                   locatorVars, routeVars, host, connectorVars, discoveryVars, coordVars>>

TracksNext == SelectTrack

(***************************************************************************)
(* SpecRoute: the navigation detector with the callbacks cb1 and cb2, on a *)
(* page whose history is pushed, replaced and popped.                      *)
(***************************************************************************)
RouteCallbacks == {"cb1", "cb2"}

RouteInit ==
    /\ nLocation \in Locations
    /\ nDetector = DetectorAtLoad(nLocation)
    /\ nLog = NoCall

\* the last callback fired up to and including the step logged
LastFired == IF nLog.fired # <<>> THEN nLog.fired[Len(nLog.fired)] ELSE nLog.previous

RouteUnchanged == UNCHANGED <<pDoc, pPc, pResult, timeVars, locatorVars, trackVars, host,
                              connectorVars, discoveryVars, coordVars>>

\* setupRouteDetection(cb)
SetupRoute(cb) ==
    /\ nDetector' = setupRouteDetection(nDetector, cb)
    /\ nLog' = Call("setup", cb, nDetector.lastUrlTracked, <<>>, TRUE, LastFired)
    /\ UNCHANGED nLocation
    /\ RouteUnchanged

\* NavigationDetector.cleanup()
RouteCleanup ==
    /\ nDetector' = routeCleanup(nDetector)
    /\ nLog' = Call("cleanup", Null, nDetector.lastUrlTracked, <<>>, TRUE, LastFired)
    /\ UNCHANGED nLocation
    /\ RouteUnchanged

\* the page calls history.pushState or history.replaceState (kind) with url
HistoryCall(kind, url, callbackThrows) ==
    LET r == callWrapped(Task(nDetector), nDetector.pushState, url, callbackThrows)
    IN  /\ nLocation' = url
        /\ nDetector' = r.d
        /\ nLog' = Call(kind, url, nDetector.lastUrlTracked, r.fired, ~r.uncaught, LastFired)
        /\ RouteUnchanged

\* the user goes back or forward to url: a popstate event
PopState(url, callbackThrows) ==
    LET r == dispatchPopstate(Task(nDetector), nDetector.popstateListeners, url,
                              callbackThrows)
    IN  /\ nLocation' = url
        /\ nDetector' = r.d
        /\ nLog' = Call("popstate", url, nDetector.lastUrlTracked, r.fired, ~r.uncaught,
                         LastFired)
        /\ RouteUnchanged

RouteNext ==
    \/ \E cb \in RouteCallbacks : SetupRoute(cb)
    \/ RouteCleanup
    \/ \E kind \in {"pushState", "replaceState"}, url \in Locations, throws \in BOOLEAN :
          HistoryCall(kind, url, throws)
    \/ \E url \in Locations, throws \in BOOLEAN : PopState(url, throws)

(***************************************************************************)
(* SpecDiscovery: one call getPlayerAPI(dOpts).  An action runs the call   *)
(* from one suspension (the call itself, or a sleep ending) to the next.   *)
(***************************************************************************)
\* the claim's notion of a valid host: handle present, first identifier
\* resolves to a session object
HostValid(h) ==
    /\ ~h.throws /\ h.app
    /\ Len(h.ids) > 0
    /\ h.ids[1] \in h.live

ConnectorIdle == cachedPlayerSession = Null /\ cachedSessionId = Null

DiscoveryIdle ==
    /\ dOpts = DefaultOptions
    /\ dPc = "idle"
    /\ dAttempt = 0
    /\ dDelay = 0
    /\ dResult = NullApi
    /\ dReads = 0
    /\ dSleeps = <<>>
    /\ dSnap = HostAbsent
    /\ dHostWasValid = FALSE

DiscoveryInit ==
    /\ dOpts \in OptionSets \cup {DefaultOptions}
    /\ host \in HostStates
    /\ dPc = "called"
    /\ dAttempt = 0
    /\ dDelay = 0
    /\ dResult = NullApi
    /\ dReads = 0
    /\ dSleeps = <<>>
    /\ dSnap = HostAbsent
    /\ dHostWasValid = HostValid(host)

\* attempt number `attempt` with the current delay `delay`: success caches and
\* returns the handle, failure starts sleep(delay)
DAttempt(attempt, delay) ==
    LET r == tryAttempt(host)
    IN  /\ dAttempt' = attempt
        /\ dDelay' = delay
        /\ dReads' = dReads + 1
        /\ dSnap' = host
        /\ IF r # NullApi
           THEN /\ cachedPlayerSession' = r.playerSession
                /\ cachedSessionId' = r.sessionId
                /\ dResult' = r
                /\ dPc' = "done"
                /\ UNCHANGED dSleeps
           ELSE /\ dSleeps' = Append(dSleeps, delay)
                /\ dPc' = "sleeping"
                /\ UNCHANGED <<connectorVars, dResult>>

\* the call: let delay = delayMs, then the loop from attempt = 0
DCall ==
    /\ dPc = "called"
    /\ IF 0 < dOpts.maxAttempts
       THEN DAttempt(0, dOpts.delayMs)
       ELSE /\ dPc' = "done"
            /\ UNCHANGED <<connectorVars, dAttempt, dDelay, dResult, dReads, dSleeps, dSnap>>
    /\ UNCHANGED <<parserVars, coordVars, host, dOpts, dHostWasValid>>

\* a variant whose loop test admits one attempt more
DWakeOneMore ==
    /\ dPc = "sleeping"
    /\ IF dAttempt + 1 <= dOpts.maxAttempts
       THEN DAttempt(dAttempt + 1, nextDelay(dDelay, dOpts))
       ELSE /\ dAttempt' = dAttempt + 1
            /\ dDelay' = nextDelay(dDelay, dOpts)
            /\ dResult' = NullApi
            /\ dPc' = "done"
            /\ UNCHANGED <<connectorVars, dReads, dSleeps, dSnap>>
    /\ UNCHANGED <<parserVars, coordVars, host, dOpts, dHostWasValid>>

\* sleep(delay) resolves: the backoff, attempt++, the loop test
DWake ==
    /\ dPc = "sleeping"
    /\ IF dAttempt + 1 < dOpts.maxAttempts
       THEN DAttempt(dAttempt + 1, nextDelay(dDelay, dOpts))
       ELSE /\ dAttempt' = dAttempt + 1
            /\ dDelay' = nextDelay(dDelay, dOpts)
            /\ dResult' = NullApi
            /\ dPc' = "done"
            /\ UNCHANGED <<connectorVars, dReads, dSleeps, dSnap>>
    /\ UNCHANGED <<parserVars, coordVars, host, dOpts, dHostWasValid>>

\* the host application changes while the call is suspended
DHostChange ==
    /\ dPc = "sleeping"
    /\ \E h \in HostStates \ {host} :
          /\ host' = h
          /\ dHostWasValid' = (dHostWasValid \/ HostValid(h))
    /\ UNCHANGED <<parserVars, coordVars, connectorVars, dOpts, dPc, dAttempt, dDelay,
                   dResult, dReads, dSleeps, dSnap>>

DiscoveryNext == DCall \/ DWake \/ DHostChange

(***************************************************************************)
(* content.js: armVideoFlow's video-detected callback.  A flow is one      *)
(* invocation of it, suspended in getPlayerAPI's sleep (pc "sleep") or in  *)
(* the 500 ms delay of the stale-session branch (pc "rejectDelay").  The   *)
(* operators below run a flow from where it resumes to its next            *)
(* suspension or its end; they return the modules' state and the flow if   *)
(* it is suspended again.  History: current (no navigation was processed   *)
(* since the flow started), runs (the getPlayerAPI calls it has made).     *)
(***************************************************************************)
NewFlow(video) ==
    [current |-> TRUE, video |-> video, pc |-> "sleep", retryCount |-> 0, attempt |-> 0,
     delay |-> 0, api |-> NullApi, runs |-> 0]

Out(m, fs) == [m |-> m, flows |-> fs]

\* userSettings?.overlayLanguage || 'pl'
overlayLanguageOf(settings) == settings.overlayLanguage

\* from SubtitleFetcher.setupSubtitleFetching(api.playerSession) to the end
armSession(m, f) ==
    LET m1 == setupSubtitleFetching(m, f.api.playerSession, ~f.current)
        tracks == getSubtitleTracks(m1, overlayLanguageOf(userSettings),
                                    userSettings.preferClosedCaptions)
        m2 == IF tracks.overlay # NullTrack
              THEN triggerOverlaySubtitleFetch(m1, tracks.overlay, tracks.current)
              ELSE m1
    IN  setupPlaybackDetection(m2, f.video, Closure(f.video, f.api.playerSession, ~f.current))

\* after the while loop: if (!api?.playerSession) return; else arm
afterLoop(m, f) ==
    IF f.api.playerSession = Null THEN Out(m, {}) ELSE Out(armSession(m, f), {})

RECURSIVE loopTop(_, _)

\* api = await getPlayerAPI() has produced api: the body of the while loop
onResult(m, f, api) ==
    LET f1 == [f EXCEPT !.api = api]
    IN  IF api.playerSession = Null
        THEN loopTop([m EXCEPT !.lastEvent = @ \cup {"none"}],
                     [f1 EXCEPT !.retryCount = @ + 1])
        ELSE IF api.sessionId # Null /\ ~IsWatchSessionId(api.sessionId)
        THEN Out(rejectCleanup(m), {[f1 EXCEPT !.retryCount = @ + 1, !.pc = "rejectDelay"]})
        ELSE afterLoop(m, f1)

\* one attempt of getPlayerAPI() against the current host
flowAttempt(m, f) ==
    LET r == tryAttempt(host)
    IN  IF r # NullApi
        THEN onResult([m EXCEPT !.cachedPlayerSession = r.playerSession,
                                !.cachedSessionId = r.sessionId], f, r)
        ELSE Out(m, {[f EXCEPT !.pc = "sleep"]})

\* getPlayerAPI() is called: its first attempt runs at once.  The variable api
\* keeps its old value until the call resolves and is not read before that;
\* the flow records it as null meanwhile.
callDiscovery(m, f) ==
    flowAttempt([m EXCEPT !.lastEvent = @ \cup (IF "none" \in @ THEN {"run", "runAfterNone"}
                                                                 ELSE {"run"})],
                [f EXCEPT !.attempt = 0, !.delay = DefaultOptions.delayMs,
                          !.api = NullApi, !.runs = @ + 1])

\* a variant whose loop test admits one pass more
loopTopOneMore(m, f) ==
    IF f.retryCount <= maxRetries THEN callDiscovery(m, f)
    ELSE afterLoop([m EXCEPT !.lastEvent = @ \cup {"exhausted"}], f)

\* while (retryCount < maxRetries)
loopTop(m, f) ==
    IF f.retryCount < maxRetries THEN callDiscovery(m, f)
    ELSE afterLoop([m EXCEPT !.lastEvent = @ \cup {"exhausted"}], f)

\* sleep(delay) resolves inside getPlayerAPI()
wakeSleep(m, f) ==
    LET f1 == [f EXCEPT !.attempt = @ + 1, !.delay = nextDelay(f.delay, DefaultOptions)]
    IN  IF f1.attempt < coordMaxAttempts THEN flowAttempt(m, f1)
        ELSE onResult(m, f1, NullApi)

\* a variant that returns from the callback after the 500 ms delay
wakeRejectGivingUp(m, f) == Out(m, {})

\* the 500 ms delay of the stale-session branch resolves: continue
wakeReject(m, f) == loopTop(m, f)

(***************************************************************************)
(* Spec: the orchestrator.  One action per task of the event loop.         *)
(***************************************************************************)
CoordIdle ==
    /\ location = "/browse" /\ domVideo = Null /\ currentTime = 0
    /\ activeTrack = [x \in Sessions |-> EnSub]
    /\ userSettings = [overlayLanguage |-> "pl", preferClosedCaptions |-> FALSE]
    /\ flows = EmptyBag /\ inflight = {}
    /\ routeDetectorAttached = FALSE /\ lastUrlTracked = "/browse"
    /\ videoObserver = FALSE /\ onVideoDetectedCallback = FALSE
    /\ trackedVideo = Null /\ onPauseCallback = NoCallback /\ listeners = {}
    /\ performanceObserver = FALSE /\ processedUrls = {} /\ subtitleCache = <<>>
    /\ playerSessionRef = Null /\ revertTimers = {}
    /\ overlayText = ""
    /\ armedByStale = FALSE /\ lastEvent = {}

\* the state start() leaves: the route detector attached, and video detection
\* armed if the page is a watch page
CoordInitWith(settings) ==
    /\ location \in Locations /\ domVideo = Null /\ currentTime = 0
    /\ host \in CoordHostStates
    /\ activeTrack = [x \in Sessions |-> EnSub]
    /\ userSettings \in settings
    /\ flows = EmptyBag /\ inflight = {}
    /\ routeDetectorAttached = TRUE /\ lastUrlTracked = location
    /\ videoObserver = IsWatchUrl(location)
    /\ onVideoDetectedCallback = IsWatchUrl(location)
    /\ trackedVideo = Null /\ onPauseCallback = NoCallback /\ listeners = {}
    /\ performanceObserver = FALSE /\ processedUrls = {} /\ subtitleCache = <<>>
    /\ playerSessionRef = Null /\ revertTimers = {}
    /\ overlayText = ""
    /\ armedByStale = FALSE /\ lastEvent = {}

CoordInit == CoordInitWith(SettingsSet)

\* a flow once a navigation has been processed
Overtaken(f) == [f EXCEPT !.current = FALSE]

\* a variant whose route callback also cleans the navigation detector up
NavigateDetaching(newUrl) ==
    /\ routeDetectorAttached
    /\ location' = newUrl
    /\ IF newUrl = lastUrlTracked
       THEN /\ Commit(Cur)
            /\ UNCHANGED <<lastUrlTracked, flows, routeDetectorAttached>>
       ELSE /\ lastUrlTracked' = newUrl
            /\ flows' = BagOfAll(Overtaken, flows)
            /\ routeDetectorAttached' = FALSE
            /\ LET m1 == cleanup(Cur)
                   m2 == IF IsWatchUrl(newUrl) THEN detectVideo(m1) ELSE m1
               IN  Commit([m2 EXCEPT !.lastEvent = @ \cup {"nav"}])
    /\ UNCHANGED <<domVideo, currentTime, userSettings, host, otherVars>>

\* a variant whose route callback arms the video flow before it cleans up
NavigateArmingFirst(newUrl) ==
    /\ routeDetectorAttached
    /\ location' = newUrl
    /\ IF newUrl = lastUrlTracked
       THEN /\ Commit(Cur)
            /\ UNCHANGED <<lastUrlTracked, flows>>
       ELSE /\ lastUrlTracked' = newUrl
            /\ flows' = BagOfAll(Overtaken, flows)
            /\ LET m1 == IF IsWatchUrl(newUrl) THEN detectVideo(Cur) ELSE Cur
                   m2 == cleanup(m1)
               IN  Commit([m2 EXCEPT !.lastEvent = @ \cup {"nav"}])
    /\ UNCHANGED <<domVideo, currentTime, routeDetectorAttached, userSettings, host, otherVars>>

\* history.pushState / replaceState / popstate to newUrl: handleRouteChange,
\* and the orchestrator's route callback
Navigate(newUrl) ==
    /\ routeDetectorAttached
    /\ location' = newUrl
    /\ IF newUrl = lastUrlTracked
       THEN /\ Commit(Cur)
            /\ UNCHANGED <<lastUrlTracked, flows>>
       ELSE /\ lastUrlTracked' = newUrl
            /\ flows' = BagOfAll(Overtaken, flows)
            /\ LET m1 == cleanup(Cur)
                   m2 == IF IsWatchUrl(newUrl) THEN detectVideo(m1) ELSE m1
               IN  Commit([m2 EXCEPT !.lastEvent = @ \cup {"nav"}])
    /\ UNCHANGED <<domVideo, currentTime, routeDetectorAttached, userSettings, host, otherVars>>

\* a variant whose observer stays connected after a detection
DomMutationWatching(v) ==
    /\ domVideo' = v
    /\ IF videoObserver /\ v # Null
       THEN LET m1 == Cur
                out == IF m1.onVideoDetectedCallback
                       THEN loopTop([m1 EXCEPT !.lastEvent = @ \cup {"detected"}],
                                    NewFlow(v))
                       ELSE Out(m1, {})
            IN  /\ BagCardinality(flows) + Cardinality(out.flows) <= MaxFlows
                /\ Commit(out.m)
                /\ flows' = flows (+) SetToBag(out.flows)
       ELSE Commit(Cur) /\ UNCHANGED flows
    /\ UNCHANGED <<location, currentTime, navVars, userSettings, host, otherVars>>

\* a DOM mutation, leaving v as the page's video element (Null: none): the
\* MutationObserver callback of the video detector
DomMutation(v) ==
    /\ domVideo' = v
    /\ IF videoObserver /\ v # Null
       THEN LET m1 == [Cur EXCEPT !.videoObserver = FALSE]
                out == IF m1.onVideoDetectedCallback
                       THEN loopTop([m1 EXCEPT !.lastEvent = @ \cup {"detected"}],
                                    NewFlow(v))
                       ELSE Out(m1, {})
            IN  /\ BagCardinality(flows) + Cardinality(out.flows) <= MaxFlows
                /\ Commit(out.m)
                /\ flows' = flows (+) SetToBag(out.flows)
       ELSE Commit(Cur) /\ UNCHANGED flows
    /\ UNCHANGED <<location, currentTime, navVars, userSettings, host, otherVars>>

\* a timer of flow f fires (out: what the callback does until it is suspended
\* again or ends)
FlowWake(f) ==
    /\ BagIn(f, flows)
    /\ \E out \in {IF f.pc = "sleep" THEN wakeSleep(Cur, f) ELSE wakeReject(Cur, f)} :
          Commit(out.m) /\ flows' = (flows (-) SetToBag({f})) (+) SetToBag(out.flows)
    /\ UNCHANGED <<pageVars, navVars, userSettings, host, otherVars>>

\* the host application moves to another snapshot
HostChange(h) ==
    /\ h # host
    /\ host' = h
    /\ Commit(Cur)
    /\ UNCHANGED <<pageVars, navVars, userSettings, flows, otherVars>>

\* a variant that does not consult the processed set
observeRequestAlways(m, url) ==
    IF isSubtitleRequest(url)
    THEN [m EXCEPT !.processedUrls = @ \cup {url},
                   !.inflight = @ \cup {[url |-> url, fresh |-> TRUE]}]
    ELSE m

\* the PerformanceObserver callback for a completed request to url: the fetch
\* is issued
observeRequest(m, url) ==
    IF isSubtitleRequest(url) /\ url \notin m.processedUrls
    THEN [m EXCEPT !.processedUrls = @ \cup {url},
                   !.inflight = @ \cup {[url |-> url, fresh |-> TRUE]}]
    ELSE m

ObserveRequest(url) ==
    /\ performanceObserver
    /\ Commit(observeRequest(Cur, url))
    /\ UNCHANGED <<pageVars, navVars, userSettings, flows, host, otherVars>>

\* a variant that puts the first cue it stored on the overlay at once
handleSubtitleResponseShowing(m, result, fresh) ==
    IF m.playerSessionRef = Null THEN m
    ELSE LET cacheKey == <<MovieOf(m.playerSessionRef), result.language>>
         IN  [m EXCEPT !.subtitleCache =
                 [k \in DOMAIN m.subtitleCache \cup {cacheKey} |->
                     IF k = cacheKey THEN [cues |-> result.cues, stale |-> ~fresh]
                     ELSE m.subtitleCache[k]],
                       !.overlayText = IF result.cues # <<>> THEN result.cues[1].text ELSE @]

\* handleSubtitleResponse(xmlString, url) with the result parseTTML returned,
\* for a fetch whose request is, or is no longer, fresh
handleSubtitleResponse(m, result, fresh) ==
    IF m.playerSessionRef = Null THEN m
    ELSE LET cacheKey == <<MovieOf(m.playerSessionRef), result.language>>
         IN  [m EXCEPT !.subtitleCache =
                 [k \in DOMAIN m.subtitleCache \cup {cacheKey} |->
                     IF k = cacheKey THEN [cues |-> result.cues, stale |-> ~fresh]
                     ELSE m.subtitleCache[k]]]

\* the fetch r settles: its text goes to handleSubtitleResponse, or it fails
FetchDone(r, ok) ==
    /\ r \in inflight
    /\ LET m1 == [Cur EXCEPT !.inflight = @ \ {r}]
       IN  IF ok
           THEN \E result \in parseTTML(DocAt(r.url)) :
                    Commit(handleSubtitleResponse(m1, result, r.fresh))
           ELSE Commit(m1)
    /\ UNCHANGED <<pageVars, navVars, userSettings, flows, host, otherVars>>

\* what the CDN may answer a caption request with: the caption document, a
\* caption document without xml:lang, an empty body, a body that is not XML
\* (response.ok is not consulted, so an error page takes the same path)
ServedDocs(url) ==
    {DocAt(url), XmlDoc([lang |-> Null, tickRate |-> Absent], TwoCues),
     NoXml("nonstring"), NoXml("invalid")}

\* the fetch r resolves with the body doc: handleSubtitleResponse(doc, r.url)
FetchServed(r, doc) ==
    /\ r \in inflight
    /\ \E result \in parseTTML(doc) :
           Commit(handleSubtitleResponse([Cur EXCEPT !.inflight = @ \ {r}], result, r.fresh))
    /\ UNCHANGED <<pageVars, navVars, userSettings, flows, host, otherVars>>

\* the revert timer t of triggerOverlaySubtitleFetch fires.  The callback
\* runs outside the try block that started the timer: with playerSessionRef
\* null, playerSessionRef.setTimedTextTrack throws a TypeError nothing catches.
revertFire(m, t) ==
    LET m1 == [m EXCEPT !.revertTimers = @ \ {t}]
    IN  IF t.currentTrack = NullTrack THEN m1
        ELSE IF m.playerSessionRef = Null
        THEN [m1 EXCEPT !.lastEvent = @ \cup {"uncaught"}]
        ELSE [m1 EXCEPT !.activeTrack[m.playerSessionRef] = t.currentTrack,
                        !.lastEvent = @ \cup {"revert"}]

RevertFire(t) ==
    /\ t \in revertTimers
    /\ Commit(revertFire(Cur, t))
    /\ UNCHANGED <<pageVars, navVars, userSettings, flows, host, otherVars>>

\* a variant that looks the cue up at video.currentTime, in seconds
onPauseSeconds(m, cb, timeMs) ==
    LET cacheKey == <<MovieOf(cb.session), overlayLanguageOf(userSettings)>>
        cues == IF cacheKey \in DOMAIN m.subtitleCache
                THEN m.subtitleCache[cacheKey].cues ELSE <<>>
        cue == findCueAt(Num(timeMs \div 1000), JsArray(cues))
        m1 == [m EXCEPT !.lastEvent = @ \cup {"pause"}]
    IN  IF cue # NoCue /\ cue.text # "" THEN showSubtitle(m1, cue.text) ELSE hideSubtitle(m1)

\* the onPause closure cb, at playback position timeMs
onPause(m, cb, timeMs) ==
    LET cacheKey == <<MovieOf(cb.session), overlayLanguageOf(userSettings)>>
        cues == IF cacheKey \in DOMAIN m.subtitleCache
                THEN m.subtitleCache[cacheKey].cues ELSE <<>>
        cue == findCueAt(Num(timeMs), JsArray(cues))
        m1 == [m EXCEPT !.lastEvent = @ \cup {"pause"}]
    IN  IF cue # NoCue /\ cue.text # "" THEN showSubtitle(m1, cue.text) ELSE hideSubtitle(m1)

\* a 'pause' event on video v, stopped at position timeMs
PauseEvent(v, timeMs) ==
    /\ v \in listeners
    /\ currentTime' = timeMs
    /\ IF onPauseCallback # NoCallback
       THEN Commit(onPause(Cur, onPauseCallback, timeMs))
       ELSE Commit(Cur)
    /\ UNCHANGED <<location, domVideo, navVars, userSettings, flows, host, otherVars>>

\* a variant whose onPlay closure leaves the overlay as it is
playHandlerKeeping(m) ==
    [m EXCEPT !.lastEvent = @ \cup {"play"}]

\* playHandler: the onPlay closure, () => SubtitleDisplay.hideSubtitle(), is
\* called if it is set
playHandler(m) ==
    LET m1 == [m EXCEPT !.lastEvent =
                   @ \cup {"play"} \cup (IF m.overlayText # "" THEN {"hid"} ELSE {})]
    IN  IF m.onPauseCallback # NoCallback THEN hideSubtitle(m1) ELSE m1

\* a 'play' event on video v
PlayEvent(v) ==
    /\ v \in listeners
    /\ Commit(playHandler(Cur))
    /\ UNCHANGED <<pageVars, navVars, userSettings, flows, host, otherVars>>

CoordNext ==
    \/ \E u \in Locations : Navigate(u)
    \/ \E v \in Videos \cup {Null} : DomMutation(v)
    \/ \E f \in BagToSet(flows) : FlowWake(f)
    \/ \E h \in CoordHostStates : HostChange(h)
    \/ \E u \in Urls : ObserveRequest(u)
    \/ \E r \in inflight, ok \in BOOLEAN : FetchDone(r, ok)

Next == CoordNext

PlaybackEvents ==
    \/ \E t \in revertTimers : RevertFire(t)
    \/ \E v \in Videos, t \in PauseTimes : PauseEvent(v, t)
    \/ \E v \in Videos : PlayEvent(v)

PlaybackNext == CoordNext \/ PlaybackEvents

\* the snapshots the host moves between while it loads one title or another
SwitchHostStates == {HostAbsent, HostWatchA, HostWatchB}

\* the cycles and the revert timers of their track switches
SwitchNext ==
    \/ \E u \in Locations : Navigate(u)
    \/ \E v \in Videos \cup {Null} : DomMutation(v)
    \/ \E f \in BagToSet(flows) : FlowWake(f)
    \/ \E h \in SwitchHostStates : HostChange(h)
    \/ \E t \in revertTimers : RevertFire(t)

\* the cycles up to their arming: navigations, detections, the callbacks'
\* timers and the host
ArmingNext ==
    \/ \E u \in Locations : Navigate(u)
    \/ \E v \in Videos \cup {Null} : DomMutation(v)
    \/ \E f \in BagToSet(flows) : FlowWake(f)
    \/ \E h \in CoordHostStates : HostChange(h)

\* the viewer picks the i-th caption track of session in the player's menu
UserSelectsTrack(session, i) ==
    /\ i \in 1..Len(TrackList(session))
    /\ activeTrack[session] # TrackList(session)[i]
    /\ Commit([Cur EXCEPT !.activeTrack[session] = TrackList(session)[i]])
    /\ UNCHANGED <<pageVars, navVars, userSettings, flows, host, otherVars>>

\* the cycles and their revert timers, with a viewer who turns the captions
\* of the second title off and on
RevertNext ==
    \/ \E u \in Locations : Navigate(u)
    \/ \E v \in Videos \cup {Null} : DomMutation(v)
    \/ \E f \in BagToSet(flows) : FlowWake(f)
    \/ \E h \in SwitchHostStates : HostChange(h)
    \/ \E t \in revertTimers : RevertFire(t)
    \/ \E i \in 1..Len(TrackList("sessB")) : UserSelectsTrack("sessB", i)

\* one navigation cycle with its pause and play events: no route change, and
\* the host stays as the page load found it
PauseNext ==
    \/ \E v \in Videos \cup {Null} : DomMutation(v)
    \/ \E f \in BagToSet(flows) : FlowWake(f)
    \/ \E u \in Urls : ObserveRequest(u)
    \/ \E r \in inflight, ok \in BOOLEAN : FetchDone(r, ok)
    \/ \E v \in Videos, t \in PauseTimes : PauseEvent(v, t)
    \/ \E v \in Videos : PlayEvent(v)

\* the overlay languages the cache is checked for, and the requests observed
CacheSettings ==
    {[overlayLanguage |-> l, preferClosedCaptions |-> FALSE] : l \in {"pl", "en"}}
CacheUrls == {"oca.nflxvideo.net/?o=pl", "oca.nflxvideo.net/?o=en"}

\* one navigation cycle with the bodies its fetches resolve with, and its
\* pause events
CacheNext ==
    \/ \E v \in Videos \cup {Null} : DomMutation(v)
    \/ \E f \in BagToSet(flows) : FlowWake(f)
    \/ \E u \in CacheUrls : ObserveRequest(u)
    \/ \E r \in inflight : \E doc \in ServedDocs(r.url) : FetchServed(r, doc)
    \/ \E v \in Videos, t \in PauseTimes : PauseEvent(v, t)

\* the video elements of two pages, one after the other or the same one kept
Surfaces == {"v1", "v2"}

\* the cycles on a page whose video element is none, the one or the other,
\* and the pause and play events of the two elements
SurfaceNext ==
    \/ \E u \in Locations : Navigate(u)
    \/ \E v \in Surfaces \cup {Null} : DomMutation(v)
    \/ \E f \in BagToSet(flows) : FlowWake(f)
    \/ \E h \in CoordHostStates : HostChange(h)
    \/ \E v \in Surfaces : PauseEvent(v, 0)
    \/ \E v \in Surfaces : PlayEvent(v)

\* PlaybackDetector.setupPlaybackDetection(v, onPause, onPlay) with closures
\* over v and session; v = Null: a call without a video element
AttachPlayback(v, session) ==
    /\ Commit(setupPlaybackDetection(Cur, v, Closure(v, session, FALSE)))
    /\ UNCHANGED <<pageVars, navVars, userSettings, flows, host, otherVars>>

\* PlaybackDetector.cleanup()
DetachPlayback ==
    /\ Commit(playbackCleanup(Cur))
    /\ UNCHANGED <<pageVars, navVars, userSettings, flows, host, otherVars>>

\* the playback detector with its callers and the events of two elements
ListenersNext ==
    \/ \E v \in Surfaces \cup {Null}, session \in Sessions : AttachPlayback(v, session)
    \/ DetachPlayback
    \/ \E v \in Surfaces, t \in PauseTimes : PauseEvent(v, t)
    \/ \E v \in Surfaces : PlayEvent(v)

InitParser ==
    ParserInit /\ host = HostAbsent /\ ConnectorIdle /\ DiscoveryIdle /\ CoordIdle

SpecParser == InitParser /\ [][ParserNext]_vars

InitTime ==
    /\ ParseIdle /\ TimeInit /\ LocatorIdle /\ TrackIdle /\ RouteIdle
    /\ host = HostAbsent /\ ConnectorIdle /\ DiscoveryIdle /\ CoordIdle

SpecTime == InitTime /\ [][TimeNext]_vars

InitLocator ==
    /\ ParseIdle /\ TimeIdle /\ LocatorInit /\ TrackIdle /\ RouteIdle
    /\ host = HostAbsent /\ ConnectorIdle /\ DiscoveryIdle /\ CoordIdle

SpecLocator == InitLocator /\ [][LocatorNext]_vars

InitTracks ==
    /\ ParseIdle /\ TimeIdle /\ LocatorIdle /\ TrackInit /\ RouteIdle
    /\ host = HostAbsent /\ ConnectorIdle /\ DiscoveryIdle /\ CoordIdle

SpecTracks == InitTracks /\ [][TracksNext]_vars

InitRoute ==
    /\ ParseIdle /\ TimeIdle /\ LocatorIdle /\ TrackIdle /\ RouteInit
    /\ host = HostAbsent /\ ConnectorIdle /\ DiscoveryIdle /\ CoordIdle

SpecRoute == InitRoute /\ [][RouteNext]_vars

InitListeners ==
    /\ ParserIdle /\ host = HostAbsent /\ ConnectorIdle /\ DiscoveryIdle /\ CoordIdle

SpecListeners == InitListeners /\ [][ListenersNext]_vars

InitDiscovery == DiscoveryInit /\ ConnectorIdle /\ ParserIdle /\ CoordIdle

SpecDiscovery == InitDiscovery /\ [][DiscoveryNext]_vars

Init == CoordInit /\ ConnectorIdle /\ ParserIdle /\ DiscoveryIdle

Spec == Init /\ [][Next]_vars

SpecPlayback == Init /\ [][PlaybackNext]_vars

SpecPause == Init /\ [][PauseNext]_vars

InitCache == CoordInitWith(CacheSettings) /\ ConnectorIdle /\ ParserIdle /\ DiscoveryIdle

SpecCache == InitCache /\ [][CacheNext]_vars

SpecSurfaces == Init /\ [][SurfaceNext]_vars

\* the timers of a suspended callback fire
SpecArming ==
    Init /\ [][ArmingNext]_vars /\ WF_vars(\E f \in BagToSet(flows) : FlowWake(f))

SpecRevert == Init /\ [][RevertNext]_vars

\* a pending timer fires
SpecSwitch ==
    Init /\ [][SwitchNext]_vars /\ WF_vars(\E t \in revertTimers : RevertFire(t))

(***************************************************************************)
(* Properties of the orchestrator (Spec).                                  *)
(***************************************************************************)
\* C1: cycles never overlap.  Every armed transient observer belongs to the
\* most recent navigation's cycle: neither the network observer nor the
\* playback listeners were put in place by a callback that started before the
\* last navigation was processed.
C1_ObserversOfCurrentCycle ==
    /\ performanceObserver => ~armedByStale
    /\ trackedVideo # Null => ~onPauseCallback.stale

\* C1, the case: a callback overtaken by a navigation has armed the network
\* observer and attached the playback listeners.
C1_Witness ==
    /\ performanceObserver /\ armedByStale
    /\ trackedVideo # Null /\ onPauseCallback.stale
    /\ trackedVideo \in listeners

\* the session objects whose identifier passes sessionId.includes('watch')
WatchSessions == {ObjOf(id) : id \in {i \in SessionIds : IsWatchSessionId(i)}}

\* C2: a cycle is armed only with a valid watch session.  Whenever the
\* network observer is armed or a pause closure is attached, the session it
\* uses is non-null and is one whose identifier passed the watch check.
C2_ArmedOnlyWithWatchSession ==
    /\ performanceObserver => playerSessionRef \in WatchSessions
    /\ trackedVideo # Null => onPauseCallback.session \in WatchSessions

\* C2, the case: the retry loop ran out on rejected sessions and the cycle was
\* armed with the last of them.
C2_Witness ==
    /\ "exhausted" \in lastEvent /\ "arm" \in lastEvent
    /\ performanceObserver /\ playerSessionRef = "sessN"
    /\ trackedVideo # Null /\ onPauseCallback.session = "sessN"

\* C3: no cue list leaks across armed sessions through in-flight fetches.  No
\* entry of the cue cache was stored by a fetch whose request was observed
\* before the fetcher was last cleaned up or armed.
C3_NoEntryFromStaleFetch ==
    \A k \in DOMAIN subtitleCache : ~subtitleCache[k].stale

\* C3, the case: in the cycle of the current navigation, the cache holds a cue
\* list stored by a fetch issued before the fetcher was last armed.
C3_Witness ==
    /\ performanceObserver /\ ~armedByStale
    /\ \E k \in DOMAIN subtitleCache :
          subtitleCache[k].stale /\ subtitleCache[k].cues # <<>>

\* C4: arming the fetcher leaves the processed-URL set and the cue cache
\* empty, whether or not it was cleaned up since it was armed before.
C4_ArmLeavesCacheEmpty ==
    ("arm" \in lastEvent \/ "rearm" \in lastEvent) =>
        (processedUrls = {} /\ subtitleCache = <<>>)

\* C4, the case: the fetcher was armed again with no cleanup in between and
\* the cache kept a cue list.
C4_Witness ==
    /\ "rearm" \in lastEvent
    /\ processedUrls = {}
    /\ subtitleCache # <<>>

\* what teardown leaves of the modules' state m
TornDown(m) ==
    /\ ~m.performanceObserver
    /\ m.subtitleCache = <<>> /\ m.processedUrls = {}
    /\ m.trackedVideo = Null /\ m.listeners = {} /\ m.onPauseCallback = NoCallback
    /\ ~m.videoObserver /\ ~m.onVideoDetectedCallback
    /\ m.playerSessionRef = Null
    /\ m.cachedPlayerSession = Null /\ m.cachedSessionId = Null

\* C5: teardown is synchronous and complete.  In every state, cleanup() leaves
\* the network observer disconnected, the cue cache and the processed-URL set
\* empty, no playback listener on any video, the video observer disconnected
\* and the session references of the fetcher and of the connector null; and
\* the state a processed navigation leaves is that state, with the video
\* detection of the new cycle started if the new page is a watch page.
C5_TeardownComplete ==
    /\ TornDown(cleanup(Cur))
    /\ "nav" \in lastEvent =>
          /\ TornDown([Cur EXCEPT !.videoObserver = FALSE,
                                  !.onVideoDetectedCallback = FALSE])
          /\ videoObserver = IsWatchUrl(location)
          /\ onVideoDetectedCallback = IsWatchUrl(location)

\* C5 witness: a navigation has torn down a cycle whose fetcher was armed with
\* a cue list cached and whose listeners were attached.
C5_Witness ==
    /\ "nav" \in lastEvent
    /\ "disarm" \in lastEvent /\ "untrack" \in lastEvent
    /\ videoObserver

\* C6: a Session Discovery run that returns null is terminal for the
\* navigation: the callback it returned to starts no further run.
C6_NoneIsTerminal == "runAfterNone" \notin lastEvent

\* C6 as the code has it: null counts as one pass of the retry loop.  When a
\* run returns null the callback starts the next run in the same task, unless
\* the loop's counter has reached maxRetries; a callback makes at most
\* maxRetries runs.
C6_NoneRetriedWithinBudget ==
    /\ "none" \in lastEvent => ("runAfterNone" \in lastEvent) # ("exhausted" \in lastEvent)
    /\ \A f \in BagToSet(flows) :
          /\ f.runs <= maxRetries
          /\ f.runs = f.retryCount + (IF f.pc = "sleep" THEN 1 ELSE 0)

\* C6 witness: a callback whose run returned null has started its last
\* permitted run.
C6_Witness ==
    /\ "runAfterNone" \in lastEvent
    /\ \E f \in BagToSet(flows) : f.runs = maxRetries /\ f.pc = "sleep"

(***************************************************************************)
(* Properties of one getPlayerAPI call (SpecDiscovery).                    *)
(***************************************************************************)
\* the options of the scenario "maxAttempts = 3, default delays"
ThreeAttempts == Options(3, 250, 3, 2, 2000)

\* C7: Session Discovery is bounded.  A call never reads the host more than
\* maxAttempts times; if the host never exposed a valid session, the finished
\* call has read it exactly maxAttempts times and returned null; with
\* maxAttempts = 3 and the default delays it slept 250 ms, then 375 ms,
\* between its three attempts.
C7_DiscoveryBounded ==
    /\ dReads <= dOpts.maxAttempts
    /\ (dPc = "done" /\ ~dHostWasValid) =>
          /\ dResult = NullApi
          /\ dReads = dOpts.maxAttempts
          /\ dOpts = ThreeAttempts => SubSeq(dSleeps, 1, 2) = <<250, 375>>

\* C7 witness: the three-attempt call has ended with null against a host
\* that was never valid.
C7_Witness ==
    /\ dPc = "done" /\ ~dHostWasValid
    /\ dOpts = ThreeAttempts
    /\ dReads = 3 /\ dResult = NullApi

\* the first delays of the default backoff
DefaultDelays ==
    <<250, 375, 562, 843, 1264, 1896, 2000, 2000, 2000, 2000,
      2000, 2000, 2000, 2000, 2000, 2000, 2000, 2000, 2000, 2000>>

\* C8: the backoff recurrence.  The first suspension lasts delayMs, and each
\* later one min(floor(previous * backoffFactor), maxDelayMs); under the
\* default options the suspensions are 250, 375, 562, 843, 1264, 1896, 2000,
\* 2000, ... and never decrease.
C8_BackoffRecurrence ==
    /\ Len(dSleeps) >= 1 => dSleeps[1] = dOpts.delayMs
    /\ \A k \in 1..(Len(dSleeps) - 1) :
          LET grown == (dSleeps[k] * dOpts.num) \div dOpts.den
          IN  dSleeps[k + 1] = IF grown < dOpts.maxDelayMs THEN grown ELSE dOpts.maxDelayMs
    /\ dOpts = DefaultOptions =>
          /\ \A k \in 1..Len(dSleeps) : dSleeps[k] = DefaultDelays[k]
          /\ \A k \in 1..(Len(dSleeps) - 1) : dSleeps[k] <= dSleeps[k + 1]

\* C8 witness: a default call has slept all of its twenty suspensions, the
\* later ones at the cap.
C8_Witness ==
    /\ dOpts = DefaultOptions
    /\ Len(dSleeps) = 20
    /\ dSleeps[6] = 1896 /\ dSleeps[7] = 2000 /\ dSleeps[20] = 2000

\* C9: an attempt succeeds if and only if, in the snapshot it read, the
\* application handle is present (and reading it does not throw) and the first
\* enumerated identifier resolves to a session object; otherwise the call goes
\* to its sleep.  The handle returned carries that first identifier and the
\* object resolved for it.
C9_SuccessIffFirstSessionResolves ==
    dReads > 0 =>
        /\ (dPc = "done" /\ dResult # NullApi) <=> HostValid(dSnap)
        /\ ~HostValid(dSnap) => (dResult = NullApi /\ dSleeps # <<>>)
        /\ HostValid(dSnap) =>
              /\ dResult.sessionId = dSnap.ids[1]
              /\ dResult.playerSession = ObjOf(dSnap.ids[1])
              /\ cachedPlayerSession = dResult.playerSession
              /\ cachedSessionId = dResult.sessionId

\* C9 witness: after a failed attempt, a host that enumerates two identifiers
\* made the call succeed with the first of them.
C9_Witness ==
    /\ dPc = "done" /\ dReads >= 2
    /\ Len(dSnap.ids) = 2
    /\ dResult.sessionId = "browse-0"

(***************************************************************************)
(* Properties of the parser (SpecParser).                                  *)
(***************************************************************************)
\* C10: for every document, the cue list parseTTML returns is sorted
\* ascending by start time: start[i] <= start[i+1] (the JavaScript <=) for
\* all adjacent cues.
C10_SortedByStart ==
    pPc = "parsed" =>
        \A i \in 1..(Len(pResult.cues) - 1) :
            JsLe(pResult.cues[i].start, pResult.cues[i + 1].start)

\* C10, the case that fails: a document whose ttp:tickRate is "0" or not a
\* number has been parsed into two cues or more.
C10_Witness ==
    /\ pPc = "parsed"
    /\ Len(pResult.cues) >= 2
    /\ ~IsFinite(pResult.cues[1].start)

\* C11: no cue the parser returns has end <= start: every cue satisfies
\* start >= 0 and end > start, also when a node's end tick value is less than
\* or equal to its begin tick value.
C11_EndAfterStart ==
    pPc = "parsed" =>
        \A i \in 1..Len(pResult.cues) :
            /\ JsGe(pResult.cues[i].start, Num(0))
            /\ JsLt(pResult.cues[i].start, pResult.cues[i].end)

\* C11, the case that fails: a document with the default tick rate and a text
\* node whose end tick is not after its begin tick has been parsed, and a
\* cue with finite times and end <= start is in the result.
C11_Witness ==
    /\ pPc = "parsed"
    /\ pDoc.tickRate = Absent
    /\ \E i \in 1..Len(pDoc.nodes) :
           /\ pDoc.nodes[i].begin.k = "ticks" /\ pDoc.nodes[i].end.k = "ticks"
           /\ pDoc.nodes[i].end.n <= pDoc.nodes[i].begin.n
           /\ pDoc.nodes[i].text # ""
    /\ \E i \in 1..Len(pResult.cues) :
           /\ IsFinite(pResult.cues[i].start) /\ IsFinite(pResult.cues[i].end)
           /\ pResult.cues[i].end.v <= pResult.cues[i].start.v

\* a node whose begin and end are both of the form "<integer>t"
WellFormedNode(p) == p.begin.k = "ticks" /\ p.end.k = "ticks"

\* C12: a node whose begin or end is missing or malformed produces no cue, and
\* every well-formed node with text still produces its cue: per text, the
\* result holds as many cues as the document has well-formed nodes.
C12_MalformedNodeSkipped ==
    (pPc = "parsed" /\ pDoc.kind = "xml") =>
        \A t \in Texts \ {""} :
            Cardinality({i \in 1..Len(pResult.cues) : pResult.cues[i].text = t})
                = Cardinality({i \in 1..Len(pDoc.nodes) :
                                   WellFormedNode(pDoc.nodes[i]) /\ pDoc.nodes[i].text = t})

\* C12, the case that fails: a document whose only node with text "Hello" has
\* a malformed begin (or end) has been parsed, and a "Hello" cue with start 0
\* (or end 0) is in the result.
C12_Witness ==
    /\ pPc = "parsed" /\ pDoc.kind = "xml"
    /\ \E i \in 1..Len(pDoc.nodes) :
           /\ pDoc.nodes[i].text = "Hello"
           /\ (pDoc.nodes[i].begin = Bad \/ pDoc.nodes[i].end = Bad)
    /\ \A i \in 1..Len(pDoc.nodes) :
           pDoc.nodes[i].text = "Hello" => ~WellFormedNode(pDoc.nodes[i])
    /\ \E i \in 1..Len(pResult.cues) :
           /\ pResult.cues[i].text = "Hello"
           /\ (pResult.cues[i].start = Num(0) \/ pResult.cues[i].end = Num(0))

\* the malformed inputs: not a string or empty, structurally invalid markup,
\* markup without paragraph nodes, a tick rate that is not a positive integer
MalformedInput(doc) ==
    \/ doc.kind # "xml"
    \/ doc.nodes = <<>>
    \/ doc.tickRate = Bad \/ doc.tickRate = Ticks(0)

\* C13: parseTTML returns a result for every input, and for every malformed
\* input the result has an empty cue list and a null language.
C13_MalformedGivesEmptyResult ==
    pPc = "parsed" =>
        (MalformedInput(pDoc) => (pResult.cues = <<>> /\ pResult.language = Null))

\* C13, the case that fails: a document without paragraph nodes whose root
\* carries xml:lang has been parsed into a result with a language.
C13_Witness ==
    /\ pPc = "parsed" /\ pDoc.kind = "xml"
    /\ pDoc.nodes = <<>> /\ pDoc.lang # Null
    /\ pResult.cues = <<>> /\ pResult.language # Null

(***************************************************************************)
(* Properties of the time conversion (SpecTime).                           *)
(***************************************************************************)
RECURSIVE Gcd(_, _)
Gcd(a, b) == IF b = 0 THEN a ELSE Gcd(b, a % b)

\* round(n * 1000 / r) on the rationals for n >= 0, r > 0, halves rounded up
\* as Math.round does: floor(n * 1000 / r + 1/2), with 1000 / r reduced first
ExactRoundMs(n, r) ==
    LET g == Gcd(1000, r)
        a == 1000 \div g
        b == r \div g
    IN  (2 * n * a + b) \div (2 * b)

\* the tick rate of the call: the attribute's value, or the default
RateOfCall == IF cTickRate = Absent THEN DefaultTickRate ELSE cTickRate.n

\* C14: a timestamp "<n>t" at tick rate r converts to round(n * 1000 / r)
\* milliseconds, r being 10,000,000 when the root has no tick-rate attribute;
\* 52500000 ticks at the default rate give 5250 and 30000000 give 3000.
C14_TickConversion ==
    (/\ cPc = "done"
     /\ cTimeStr.k = "ticks"
     /\ cTickRate = Absent \/ (cTickRate.k = "ticks" /\ cTickRate.n > 0))
        => cMs = Num(ExactRoundMs(cTimeStr.n, RateOfCall))

\* C14, the case that fails: "5015000t" at the default rate is 501.5 ms, and
\* the call returned 501.
C14_Witness ==
    /\ cPc = "done"
    /\ cTimeStr = Ticks(5015000) /\ cTickRate = Absent
    /\ cMs = Num(501)

(***************************************************************************)
(* Properties of the cue locator (SpecLocator).                            *)
(***************************************************************************)
\* the list is sorted ascending by start
SortedByStart(cues) ==
    \A i \in 1..(Len(cues) - 1) : cues[i].start.v <= cues[i + 1].start.v

\* the indexes of the cues whose interval [start, end) contains t
Containing(t, cues) ==
    {i \in 1..Len(cues) : cues[i].start.v <= t /\ t < cues[i].end.v}

LowestOf(S) == CHOOSE i \in S : \A j \in S : i <= j

HelloWorld == <<Cue("Hello", Num(0), Num(3000)), Cue("World", Num(3000), Num(6000))>>

\* C15: on a cue list sorted by start, findCueAt returns the lowest-index cue
\* with start <= t < end if a cue contains t and none otherwise; with the cues
\* [0,3000) and [3000,6000), 2999 gives the first, 3000 the second, 6000 none.
C15_LowestContainingCue ==
    (lCalls > 0 /\ lCues.isArray /\ SortedByStart(lCues.items)) =>
        /\ Containing(lTime, lCues.items) = {} => lResult = NoCue
        /\ Containing(lTime, lCues.items) # {} =>
               lResult = lCues.items[LowestOf(Containing(lTime, lCues.items))]
        /\ (lCues.items = HelloWorld /\ lTime = 2999) => lResult = HelloWorld[1]
        /\ (lCues.items = HelloWorld /\ lTime = 3000) => lResult = HelloWorld[2]
        /\ (lCues.items = HelloWorld /\ lTime = 6000) => lResult = NoCue

\* C15 witness: two different cues of a sorted list both contain the
\* timestamp, and the call returned the first.
C15_Witness ==
    /\ lCalls > 0 /\ lCues.isArray /\ SortedByStart(lCues.items)
    /\ Cardinality(Containing(lTime, lCues.items)) = 2
    /\ lCues.items[1] # lCues.items[2]
    /\ lResult = lCues.items[1]

\* the timestamp is before the first cue's start or at/after the last cue's end
OutsideFirstToLast(t, cues) ==
    cues # <<>> /\ (t < cues[1].start.v \/ t >= cues[Len(cues)].end.v)

\* the timestamp is before the first cue's start or at/after every cue's end
OutsideAll(t, cues) ==
    cues # <<>> /\ (t < cues[1].start.v \/ \A i \in 1..Len(cues) : t >= cues[i].end.v)

\* C16 as stated: on every sorted cue list, overlapping cues permitted, a
\* timestamp before the first cue's start or at/after the last cue's end gives
\* none.
C16_NoneOutsideFirstToLast ==
    (lCalls > 0 /\ lCues.isArray /\ SortedByStart(lCues.items)
        /\ OutsideFirstToLast(lTime, lCues.items)) => lResult = NoCue

\* C16 as amended: on every sorted cue list, a timestamp before the first
\* cue's start or at/after the end of every cue of the list gives none.
C16_NoneOutsideAllCues ==
    (lCalls > 0 /\ lCues.isArray /\ SortedByStart(lCues.items)
        /\ OutsideAll(lTime, lCues.items)) => lResult = NoCue

\* C16 witness: the last cue ends before an earlier one; a timestamp at the
\* greatest end gave none, the list having a cue that starts at or before it.
C16_Witness ==
    /\ lCalls > 0 /\ lCues.isArray /\ SortedByStart(lCues.items)
    /\ Len(lCues.items) = 2
    /\ lCues.items[2].end.v < lCues.items[1].end.v
    /\ lTime = lCues.items[1].end.v
    /\ lCues.items[1].start.v < lCues.items[1].end.v
    /\ lResult = NoCue

FetchesStarted == {r \in inflight' : r.fresh /\ r \notin inflight}

\* C18: within one armed session each caption URL is fetched at most once.  A
\* step issues a fetch only from the armed observer, only for a URL that
\* matches the caption pattern and was not in the processed set, which then
\* holds it; and a URL leaves the processed set only when the observer is
\* armed anew or disconnected.
C18_FetchOncePerSession ==
    [][/\ \A r \in FetchesStarted :
              /\ performanceObserver
              /\ isSubtitleRequest(r.url)
              /\ r.url \notin processedUrls
              /\ r.url \in processedUrls'
       /\ Cardinality(FetchesStarted) <= 1
       /\ ~(processedUrls \subseteq processedUrls') =>
              \/ "arm" \in lastEvent' \/ "rearm" \in lastEvent'
              \/ ~performanceObserver']_vars

\* C18 witness: the observer is armed, a caption URL is in the processed set,
\* its fetch has settled and its cues are stored; the URL may be observed again.
C18_Witness ==
    /\ performanceObserver
    /\ "oca.nflxvideo.net/?o=pl" \in processedUrls
    /\ inflight = {}
    /\ subtitleCache # <<>>

(***************************************************************************)
(* Properties of the pause handling (SpecPause).                           *)
(***************************************************************************)
\* the cue list cached under (content id of the callback's session, requested
\* overlay language), the empty list when there is no entry
ListAtPause ==
    LET key == <<MovieOf(onPauseCallback.session), userSettings.overlayLanguage>>
    IN  IF key \in DOMAIN subtitleCache THEN subtitleCache[key].cues ELSE <<>>

\* the cues of ListAtPause whose interval contains the playback position
ActiveAtPause ==
    {i \in 1..Len(ListAtPause) :
        /\ JsLe(ListAtPause[i].start, Num(currentTime))
        /\ JsLt(Num(currentTime), ListAtPause[i].end)}

C20_PauseBeforeFetchShowsNothing ==
    [][/\ ("pause" \in lastEvent' /\ ListAtPause = <<>>) =>
              (overlayText' = "" /\ inflight' = inflight /\ subtitleCache' = subtitleCache)
       /\ (overlayText = "" /\ overlayText' # "") => "pause" \in lastEvent']_vars

\* C20 witness: a pause was processed with the fetch of the caption document
\* still pending; the overlay is empty.
C20_Witness ==
    /\ "pause" \in lastEvent
    /\ inflight # {}
    /\ ListAtPause = <<>>
    /\ overlayText = ""

\* C21: every resume signal clears the display.  A step that handles a play
\* event leaves the overlay without text, and a step that handles no pause
\* event leaves the overlay as it was or without text: once cleared it stays
\* cleared until a pause event is handled.
C21_PlayClearsOverlay ==
    [][/\ "play" \in lastEvent' => overlayText' = ""
       /\ "pause" \notin lastEvent' => overlayText' \in {"", overlayText}]_vars

\* C21 witness: a play event was handled while the overlay showed a cue; the
\* overlay is empty.
C21_Witness ==
    /\ "play" \in lastEvent /\ "hid" \in lastEvent
    /\ overlayText = ""

(***************************************************************************)
(* Properties of the navigation cycle (Spec).                              *)
(***************************************************************************)
\* C22: teardown is idempotent.  In every state, cleanup() run on the state
\* cleanup() leaves changes nothing, and cleanup() run on a state in which
\* the cycle is idle changes nothing.
C22_TeardownIdempotent ==
    /\ cleanup(cleanup(Cur)) = cleanup(Cur)
    /\ TornDown(Cur) => cleanup(Cur) = Cur

\* C22 witness: a navigation has torn down a cycle whose listeners were
\* attached and has started none: the cycle is idle.
C22_Witness ==
    /\ "nav" \in lastEvent /\ "untrack" \in lastEvent
    /\ TornDown(Cur)

\* C23: the navigation watcher outlives every cycle.  The route detector is
\* attached in every state, and every step that changes the location is
\* processed as a navigation.
C23_WatcherStaysAttached ==
    /\ []routeDetectorAttached
    /\ [][location' # location => ("nav" \in lastEvent' /\ lastUrlTracked' = location')]_vars

\* C23 witness: after a navigation tore the cycle down, a callback of an
\* earlier cycle has armed the fetcher again; the route detector is attached.
C23_Witness ==
    /\ "rearm" \in lastEvent
    /\ routeDetectorAttached /\ lastUrlTracked = location

\* the coordinator's state: a transient observer of an armed cycle is in
\* place; the video detection is armed and none of them is; nothing is
Armed == performanceObserver \/ trackedVideo # Null \/ listeners # {}
Detecting == videoObserver /\ onVideoDetectedCallback /\ ~Armed
Idle == ~videoObserver /\ ~Armed

\* C24: a processed navigation leaves the coordinator Detecting if the new
\* location is a watch page and Idle otherwise, whatever it was before; and
\* the video detection is armed by no other step.
C24_NavigationArmsDetection ==
    [][/\ "nav" \in lastEvent' =>
              IF IsWatchUrl(location') THEN Detecting' ELSE Idle'
       /\ (~videoObserver /\ videoObserver') =>
              ("nav" \in lastEvent' /\ IsWatchUrl(location'))]_vars

\* C24 witness: a navigation from an armed cycle to another watch page has
\* left the coordinator Detecting.
C24_Witness ==
    /\ "nav" \in lastEvent /\ "disarm" \in lastEvent
    /\ location = "/watch/2"
    /\ Detecting

\* C25: once a cycle is armed it leaves Armed only through a navigation.  A
\* step that processes no navigation leaves the network observer the current
\* cycle armed connected, its cached cue lists in the cache and the playback
\* listeners it attached in place.
C25_ArmedUntilNavigation ==
    [][("nav" \notin lastEvent') =>
          /\ (performanceObserver /\ ~armedByStale) =>
                 /\ performanceObserver'
                 /\ DOMAIN subtitleCache \subseteq DOMAIN subtitleCache'
          /\ (trackedVideo # Null /\ ~onPauseCallback.stale) =>
                 listeners \subseteq listeners']_vars

\* C25, the case: with no navigation processed, a step has disconnected the
\* armed network observer, dropped its cached cue list and taken the
\* listeners off the tracked video.
C25_Witness ==
    /\ "nav" \notin lastEvent
    /\ "disarm" \in lastEvent /\ "untrack" \in lastEvent
    /\ ~performanceObserver /\ subtitleCache = <<>> /\ listeners = {}

\* the overlay track getSubtitleTracks selects for the cached session
SelectedOverlay ==
    getSubtitleTracks(Cur, overlayLanguageOf(userSettings),
                      userSettings.preferClosedCaptions).overlay

\* C26: arming order within a cycle.  A step that issues the proactive track
\* switch is one that arms the network observer from disarmed (the one
\* requestFetch of the armed cycle), an overlay track was selected, and the
\* switch found the observer armed: the session's active track is the
\* selected one.  A step that attaches the playback listeners has armed the
\* observer and, if an overlay track was selected, has issued the switch.
C26_ArmingOrder ==
    [][/\ "switch" \in lastEvent' =>
              /\ "arm" \in lastEvent' /\ performanceObserver'
              /\ SelectedOverlay' # NullTrack
              /\ activeTrack'[playerSessionRef'] = SelectedOverlay'
       /\ (trackedVideo' # Null /\ trackedVideo' # trackedVideo) =>
              /\ performanceObserver'
              /\ "arm" \in lastEvent' \/ "rearm" \in lastEvent'
              /\ SelectedOverlay' # NullTrack => "switch" \in lastEvent']_vars

\* C26, the case: the track switch was issued again by a step that armed a
\* fetcher already armed in the cycle.
C26_Witness ==
    /\ "rearm" \in lastEvent /\ "switch" \in lastEvent
    /\ performanceObserver

\* C26 but for the count: the switch is issued by a step that arms the
\* fetcher, armed or not before
C26_ArmingOrderOfEachArming ==
    [][/\ "switch" \in lastEvent' =>
              /\ "arm" \in lastEvent' \/ "rearm" \in lastEvent'
              /\ performanceObserver'
              /\ SelectedOverlay' # NullTrack
              /\ activeTrack'[playerSessionRef'] = SelectedOverlay'
       /\ (trackedVideo' # Null /\ trackedVideo' # trackedVideo) =>
              /\ performanceObserver'
              /\ "arm" \in lastEvent' \/ "rearm" \in lastEvent'
              /\ SelectedOverlay' # NullTrack => "switch" \in lastEvent']_vars

(***************************************************************************)
(* Properties of the proactive track switch (SpecSwitch).                  *)
(***************************************************************************)
\* the revert timers a track switch can start
Timers == [currentTrack : {EnSub, PlSub}, session : Sessions, live : {TRUE}]

\* the timer t is pending and the fetcher was not cleaned up since the switch
\* that started it
Pending(t) == t \in revertTimers

\* since the switch that started t, its session has its original track again,
\* or the fetcher was cleaned up
RevertedOrTornDown(t) ==
    \/ activeTrack[t.session] = t.currentTrack
    \/ playerSessionRef = Null
    \/ [t EXCEPT !.live = FALSE] \in revertTimers

\* C27: a step that switches the track leaves the overlay track active on
\* the fetcher's session and a timer pending for the original track; absent a
\* cleanup of the fetcher, the session whose track was switched eventually
\* has its original track again; and no track changes but in a step that
\* switches or reverts.
C27_SwitchedTrackIsReverted ==
    /\ [][/\ "switch" \in lastEvent' =>
                 /\ playerSessionRef' # Null /\ SelectedOverlay' # NullTrack
                 /\ activeTrack'[playerSessionRef'] = SelectedOverlay'
                 /\ \E t \in revertTimers' : t.live /\ t.session = playerSessionRef'
          /\ activeTrack' # activeTrack =>
                 ("switch" \in lastEvent' \/ "revert" \in lastEvent')]_vars
    /\ \A t \in Timers : Pending(t) ~> RevertedOrTornDown(t)

\* C27, the case: the timer of a switch has fired with no cleanup since the
\* switch, and the session it switched still has the overlay track active.
C27_Witness ==
    /\ "revert" \in lastEvent
    /\ revertTimers = {}
    /\ playerSessionRef = "sessB"
    /\ activeTrack["sessA"] = PlSub

\* C28: no failure of requestFetch propagates.  No step leaves an exception
\* of the switch or of its revert timer uncaught.
C28_NoUncaughtException == "uncaught" \notin lastEvent

\* C28, the case: the revert timer fired after a cleanup had set the
\* fetcher's session reference to null.
C28_Witness ==
    /\ "uncaught" \in lastEvent
    /\ playerSessionRef = Null

(***************************************************************************)
(* Properties of the overlay track selection (SpecTracks).                 *)
(***************************************************************************)
\* the language of a tag: its primary subtag, the characters before the
\* first "-"
RECURSIVE primarySubtag(_)
primarySubtag(chars) ==
    IF chars = <<>> \/ Head(chars) = "-" THEN <<>>
    ELSE <<Head(chars)>> \o primarySubtag(Tail(chars))

\* the positions of the tracks of the requested language that are not the
\* "Off" entry
MatchingLanguage ==
    {i \in 1..Len(sTrackList) :
        /\ sTrackList[i].bcp47 # Null
        /\ primarySubtag(Spelling(sTrackList[i].bcp47)) = Spelling(sLanguage)
        /\ ~sTrackList[i].isNoneTrack}

\* the positions of the tracks whose tag begins with the requested language
\* and that are not the "Off" entry
MatchingPrefix ==
    {i \in 1..Len(sTrackList) :
        StartsWith(sTrackList[i].bcp47, sLanguage) /\ ~sTrackList[i].isNoneTrack}

\* the selection policy over the positions M
Preferred(M) ==
    LET first == IF sPreferCC THEN "CLOSEDCAPTIONS" ELSE "SUBTITLES"
        second == IF sPreferCC THEN "SUBTITLES" ELSE "CLOSEDCAPTIONS"
        OfType(type) == {i \in M : sTrackList[i].rawTrackType = type}
    IN  IF M = {} THEN NullTrack
        ELSE IF OfType(first) # {} THEN sTrackList[LowestOf(OfType(first))]
        ELSE IF OfType(second) # {} THEN sTrackList[LowestOf(OfType(second))]
        ELSE sTrackList[LowestOf(M)]

\* C29: the selected track is, among the tracks of the requested language
\* that are not the "Off" entry, the first of the preferred caption type, else
\* the first of the other type, else the first of them; it is null exactly
\* when there is none, and neither the "Off" entry nor a track of another
\* language is selected.
C29_OverlayOfRequestedLanguage ==
    sPc = "done" =>
        /\ sOverlay = Preferred(MatchingLanguage)
        /\ sOverlay = NullTrack <=> MatchingLanguage = {}
        /\ sOverlay # NullTrack =>
               /\ ~sOverlay.isNoneTrack
               /\ primarySubtag(Spelling(sOverlay.bcp47)) = Spelling(sLanguage)

\* C29, the case: Finnish is requested, the list has a Filipino track and no
\* Finnish one, and the Filipino track is selected.
C29_Witness ==
    /\ sPc = "done"
    /\ sLanguage = "fi"
    /\ sTrackList = <<Track("en-US", "SUBTITLES", FALSE), Track("fil", "SUBTITLES", FALSE)>>
    /\ sOverlay = Track("fil", "SUBTITLES", FALSE)

\* C29 with the match the code makes: a tag matches when it begins with the
\* requested language
C29_OverlayOfMatchingPrefix ==
    sPc = "done" =>
        /\ sOverlay = Preferred(MatchingPrefix)
        /\ sOverlay = NullTrack <=> MatchingPrefix = {}
        /\ sOverlay # NullTrack =>
               ~sOverlay.isNoneTrack /\ StartsWith(sOverlay.bcp47, sLanguage)

(***************************************************************************)
(* Properties of the video detection (Spec).                               *)
(***************************************************************************)
\* C30: video detection is single-shot.  A step calls the video-detected
\* callback only if the observer was connected and the callback of the
\* detectVideo call still registered, neither of which holds after the
\* detector's cleanup, and the step leaves the observer disconnected; the
\* observer is connected again by a navigation only, so one detectVideo call
\* has its callback called at most once.
C30_DetectionSingleShot ==
    [][/\ "detected" \in lastEvent' =>
              /\ videoObserver /\ onVideoDetectedCallback
              /\ ~videoObserver'
       /\ videoObserver' => (videoObserver \/ "nav" \in lastEvent')]_vars

\* C30 witness: the callback was called for a <video>, the observer is
\* disconnected, and the callback's retry loop is suspended.
C30_Witness ==
    /\ "detected" \in lastEvent
    /\ ~videoObserver /\ domVideo # Null
    /\ flows # EmptyBag

(***************************************************************************)
(* Properties of the later cycles (SpecSurfaces, SpecParser, Spec).        *)
(***************************************************************************)
\* a video element that was in the page when detection was armed: while the
\* observer is connected, a mutation that brings an element in is the one that
\* hands it to the callback
LeftOver == IF videoObserver THEN domVideo ELSE Null

\* C31: video detection is forward-looking.  The element handed to the
\* video-detected callback is never one that was in the page already when
\* detection was armed: it appears with the mutation that is reported.
C31_DetectionForwardLooking ==
    [][("detected" \in lastEvent') => (LeftOver = Null \/ domVideo' # LeftOver)]_vars

\* C31, the case: a navigation to a watch page has armed detection while the
\* previous page's video element is still in the document.
C31_Witness ==
    /\ "nav" \in lastEvent /\ videoObserver /\ onVideoDetectedCallback
    /\ LeftOver # Null

\* the bodies handleSubtitleResponse gets the empty result for
Unparseable(doc) == parseTTML(doc) = {ParseResult(<<>>, Null)}

\* C32: the cue cache is written only on a successful parse.  Handling a
\* fetched body that is unparseable (parseTTML returns the empty cue list and
\* the null language) leaves the cache as it was: no key added, no entry
\* replaced.
C32_CacheWrittenOnSuccessOnly ==
    [][\A r \in inflight : \A doc \in ServedDocs(r.url) :
          (Unparseable(doc) /\ FetchServed(r, doc)) => subtitleCache' = subtitleCache]_vars

\* C32, the case: an armed fetcher has handled a body, and the cache holds an
\* entry with no cues under a key without language.
C32_Witness ==
    /\ playerSessionRef # Null
    /\ \E k \in DOMAIN subtitleCache : k[2] = Null /\ subtitleCache[k].cues = <<>>

NavigationKinds == {"pushState", "replaceState", "popstate"}

\* C33: with the watcher attached, a pushState, a replaceState or a popstate
\* that leaves the location different from the last tracked one fires the
\* registered callback exactly once, with the new location, and one that
\* leaves it equal fires nothing; two consecutive callbacks never carry the
\* same location; and the wrapped history call returns its result also when
\* the callback throws.
C33_OneCallbackPerRouteChange ==
    /\ (nLog.kind \in NavigationKinds /\ nDetector.routeDetectorAttached) =>
          /\ IF nLocation # nLog.tracked
             THEN /\ Len(nLog.fired) = 1
                  /\ nLog.fired[1].callback = nDetector.onRouteChangeCallback
                  /\ nLog.fired[1].url = nLocation
             ELSE nLog.fired = <<>>
          /\ nLog.returned
    /\ \A i \in 1..Len(nLog.fired) :
          nLog.fired[i].url # (IF i = 1 THEN nLog.previous ELSE nLog.fired[i - 1]).url

\* C33, the case: after an earlier callback, a pushState to another location
\* has fired the callback, the callback threw, and the call returned.
C33_Witness ==
    /\ nLog.kind = "pushState" /\ nLog.previous # NoFired
    /\ Len(nLog.fired) = 1 /\ nLog.fired[1].threw /\ nLog.fired[1].url = nLocation
    /\ nLog.returned

\* C35: setupRouteDetection is attach-once.  A call made while the watcher is
\* attached changes nothing: the history functions keep their one wrapper,
\* window its one popstate listener, and the registered callback stays; so no
\* route change fires more than one callback.
C35_AttachOnce ==
    /\ [](/\ nDetector.pushState <= 1 /\ nDetector.popstateListeners <= 1
          /\ Len(nLog.fired) <= 1)
    /\ [][(nLog'.kind = "setup" /\ nDetector.routeDetectorAttached)
             => nDetector' = nDetector]_vars

\* C35, the case: setupRouteDetection(cb2) has been called on a watcher that
\* was attached with cb1 and has reported a route change.
C35_Witness ==
    /\ nLog.kind = "setup" /\ nLog.arg = "cb2"
    /\ nLog.previous.callback = "cb1"
    /\ nDetector.routeDetectorAttached /\ nDetector.onRouteChangeCallback = "cb1"

\* C34: playback detection tracks at most one surface.  The detector's pause
\* and play listeners are on the tracked video element and on no other, so
\* attaching to a new element leaves the previous one without them; and
\* while no element is tracked (after the detector's cleanup) no pause or
\* play event reaches a handler or a callback.
C34_OneTrackedSurface ==
    /\ [](listeners = IF trackedVideo # Null THEN {trackedVideo} ELSE {})
    /\ [][(trackedVideo = Null) => ("pause" \notin lastEvent' /\ "play" \notin lastEvent')]_vars

\* C34, the case: setupPlaybackDetection was called with v2 while v1 was
\* tracked: v1's listeners were taken off and v2 carries the listeners.
C34_Witness ==
    /\ "untrack" \in lastEvent
    /\ trackedVideo = "v2" /\ listeners = {"v2"}

\* C37: Session Discovery suspends only between attempts.  A finished run
\* that made n attempts has suspended its caller n - 1 times; a run that
\* exhausts maxAttempts returns after its last attempt without sleeping.
C37_SleepsBetweenAttempts ==
    (dPc = "done" /\ dReads > 0) => Len(dSleeps) = dReads - 1

\* C37, the case: a run has made all its maxAttempts attempts, two or more,
\* and returned null.
C37_Witness ==
    /\ dPc = "done" /\ dResult = NullApi
    /\ dReads = dOpts.maxAttempts /\ dReads >= 2

\* C38: whatever the options, no suspension of Session Discovery lasts
\* longer than maxDelayMs.
C38_SleepsCapped ==
    \A i \in 1..Len(dSleeps) : dSleeps[i] <= dOpts.maxDelayMs

\* C38, the case: a run whose initial delay is larger than maxDelayMs has
\* slept between two attempts.
C38_Witness ==
    /\ dOpts.delayMs > dOpts.maxDelayMs
    /\ dReads >= 2 /\ Len(dSleeps) >= 1

\* a timer started on another session than the one the fetcher is armed on
\* now, the fetcher having been cleaned up in between
OfEarlierSession(t) ==
    /\ ~t.live
    /\ playerSessionRef # Null /\ t.session # playerSessionRef

\* C39: the delayed revert acts on the session the switch was made on.  When
\* the fetcher was cleaned up and armed again on a different session while a
\* revert timer was pending, the timer's firing leaves the active caption
\* track of the newly armed session as it is.
C39_RevertOnSwitchedSession ==
    [][\A t \in revertTimers :
          (OfEarlierSession(t) /\ RevertFire(t))
              => activeTrack'[playerSessionRef] = activeTrack[playerSessionRef]]_vars

\* C39, the case: the fetcher is armed on the second title's session, whose
\* captions are off, while the timer of a switch made on the first title's
\* session is pending.
C39_Witness ==
    /\ playerSessionRef = "sessB" /\ activeTrack["sessB"] = OffTrack
    /\ \E t \in revertTimers :
          OfEarlierSession(t) /\ t.session = "sessA" /\ t.currentTrack = EnSub

\* the key parseTTML and handleSubtitleResponse store a document under whose
\* root xml:lang is the requested overlay language, while the session of the
\* pause closure is the armed one
StoredKey ==
    <<MovieOf(onPauseCallback.session), languageOf([lang |-> userSettings.overlayLanguage])>>

\* the cues stored under StoredKey whose interval contains the playback
\* position
ActiveInStored ==
    {i \in 1..Len(subtitleCache[StoredKey].cues) :
        /\ JsLe(subtitleCache[StoredKey].cues[i].start, Num(currentTime))
        /\ JsLt(Num(currentTime), subtitleCache[StoredKey].cues[i].end)}

\* C40: store and lookup keys agree.  Once a document whose root language is
\* the requested overlay language L ("en" included) is cached for the
\* session's content id V, a pause looks up (V, L) and finds its cue list: a
\* pause inside one of its cues shows that cue's text.
C40_StoreAndLookupKeysAgree ==
    ("pause" \in lastEvent /\ StoredKey \in DOMAIN subtitleCache) =>
        /\ ListAtPause = subtitleCache[StoredKey].cues
        /\ ActiveInStored # {} =>
              overlayText = subtitleCache[StoredKey].cues[LowestOf(ActiveInStored)].text

\* C40, the case: with the overlay language "en", the document with
\* xml:lang="en" is cached for the session's title and a pause inside its
\* second cue has been handled.
C40_Witness ==
    /\ userSettings.overlayLanguage = "en"
    /\ "pause" \in lastEvent /\ currentTime = 3000
    /\ StoredKey \in DOMAIN subtitleCache
    /\ Len(subtitleCache[StoredKey].cues) = 2

\* C40 for the overlay languages the parser stores under their own code
C40_KeysAgreeUnlessEnglish ==
    userSettings.overlayLanguage # "en" => C40_StoreAndLookupKeysAgree

\* the suspended callback f of the current cycle has an attempt left: one
\* more in its getPlayerAPI call, or one more pass of its retry loop
BudgetLeft(f) ==
    /\ f.current
    /\ IF f.pc = "sleep"
       THEN f.attempt + 1 < coordMaxAttempts \/ f.retryCount + 1 < maxRetries
       ELSE f.retryCount < maxRetries

\* the network observer is connected and the playback listeners are on the
\* video element
ArmedOn(video) ==
    /\ performanceObserver /\ playerSessionRef # Null
    /\ trackedVideo = video /\ video \in listeners

\* C36: liveness of arming.  A video element detected while the host exposes
\* a watch session arms the cycle at once; and a cycle whose callback is
\* suspended with an attempt left while the host exposes a watch session
\* reaches Armed, unless a navigation is processed or the host withdraws the
\* session first.
C36_ArmingLiveness ==
    /\ [][("detected" \in lastEvent' /\ host = HostWatchA)
             => \E v \in Videos : domVideo' = v /\ ArmedOn(v)']_vars
    /\ ((\E f \in BagToSet(flows) : BudgetLeft(f)) /\ host = HostWatchA)
           ~> (\/ \E v \in Videos : ArmedOn(v)
               \/ "nav" \in lastEvent
               \/ host # HostWatchA)

\* C36, the case: the callback of the current cycle, suspended while the host
\* had no watch session to show, has armed the cycle on the first title's
\* session when one of its timers fired.
C36_Witness ==
    /\ "run" \in lastEvent /\ "detected" \notin lastEvent
    /\ ArmedOn("v1") /\ ~armedByStale
    /\ playerSessionRef = "sessA"

=============================================================================
